---- MODULE Spec2Model ----
(***************************************************************************)
(* Revision-specifier resolution: git-repository/src/rev_spec/parse.rs.    *)
(* RevSpec::from_bstr builds a Delegate, the grammar consumer drives it    *)
(* through callbacks, done() runs the two finalization passes and the      *)
(* driver reduces every side to at most one object id.                     *)
(***************************************************************************)
EXTENDS Integers, Sequences, FiniteSets, TLC

\* Number of hex digits of a full object id (git_hash::Kind::len_in_hex), scaled.
HexLen == 2
\* Number of callbacks the grammar consumer issues before done().
MaxCalls == 2
\* Length of the error lists handed to the aggregator on its own.
MaxErrors == 3

Digits == 0 .. 5
Sides == {0, 1}
Kinds == {"blob", "tree", "commit", "tag"}

\* Option<T>: None is the empty set, Some(x) the singleton.
None == {}
Some(x) == {x}
Unwrap(o) == CHOOSE x \in o : TRUE

\* Result<T, E> and a panic (assert!, expect, unreachable!, todo!).
Ok(v) == [tag |-> "Ok", value |-> v]
Err(e) == [tag |-> "Err", error |-> e]
Panic(m) == [tag |-> "Panic", msg |-> m]

(***************************************************************************)
(* Object ids, prefixes and names.                                         *)
(***************************************************************************)
ObjectIds == [1 .. HexLen -> Digits]

\* The id whose first two hex digits are a and b, zero afterwards.
Id(a, b) == [i \in 1 .. HexLen |-> IF i = 1 THEN a ELSE IF i = 2 THEN b ELSE 0]

\* git_hash::Prefix: the id bytes, zeroed past hex_len, and the hex length.
MkPrefix(s) ==
    [bytes |-> [i \in 1 .. HexLen |-> IF i <= Len(s) THEN s[i] ELSE 0], hex_len |-> Len(s)]

\* Prefixes the grammar consumer passes to disambiguate_prefix: every one-digit prefix,
\* and the full-length spelling of some ids (stored, unreadable and not stored).
Prefixes ==
    {MkPrefix(<<a>>) : a \in Digits}
        \cup {MkPrefix(Id(a, b)) : <<a, b>> \in {<<2, 0>>, <<0, 3>>, <<3, 2>>, <<1, 4>>}}

HexChar(d) ==
    CASE d = 0 -> "0" [] d = 1 -> "1" [] d = 2 -> "2" [] d = 3 -> "3" [] d = 4 -> "4" [] OTHER -> "5"

\* Prefix::to_string(): the first hex_len digits as text.
PrefixToString(p) == [i \in 1 .. p.hex_len |-> HexChar(p.bytes[i])]

PrefixMatches(p, id) == \A i \in 1 .. p.hex_len : id[i] = p.bytes[i]

(***************************************************************************)
(* The repository the resolution runs against: an object database and a    *)
(* reference store.                                                        *)
(***************************************************************************)
Blob(id) == [id |-> id, kind |-> "blob", target |-> None]
Tree(id) == [id |-> id, kind |-> "tree", target |-> None]
Commit(id, tree) == [id |-> id, kind |-> "commit", target |-> Some(tree)]
Tag(id, to) == [id |-> id, kind |-> "tag", target |-> Some(to)]

\* Entries of the object database index.
Objects ==
    { Blob(Id(0, 0)), Tree(Id(0, 1)), Commit(Id(0, 2), Id(0, 1)), Tag(Id(0, 3), Id(0, 2)),
      Blob(Id(1, 0)), Blob(Id(1, 1)),
      Commit(Id(2, 0), Id(0, 1)),
      Tag(Id(3, 0), Id(2, 0)), Tag(Id(3, 1), Id(0, 2)), Blob(Id(3, 2)), Tag(Id(3, 3), Id(3, 2)),
      Commit(Id(4, 0), Id(0, 1)), Tag(Id(4, 1), Id(4, 0)),
      Commit(Id(5, 0), Id(0, 1)), Tag(Id(5, 1), Id(2, 0)) }

\* Indexed entries whose data cannot be read back.
Unreadable == {Id(3, 2)}

Peeled(id) == [tag |-> "Peeled", id |-> id]
Symbolic(name) == [tag |-> "Symbolic", name |-> name]
Reference(name, target) == [name |-> name, target |-> target]

\* Target::try_id()
try_id(target) == IF target.tag = "Peeled" THEN Some(target.id) ELSE None

FullName(name) == IF name = <<"HEAD">> THEN name ELSE <<"refs", "heads">> \o name

PlainRefs ==
    { Reference(<<"HEAD">>, Symbolic(FullName(<<"main">>))),
      Reference(FullName(<<"main">>), Peeled(Id(2, 0))) }

\* References whose short names read like object prefixes.
HexNamedRefs ==
    { Reference(FullName(PrefixToString(MkPrefix(<<2>>))), Peeled(Id(0, 2))),
      Reference(FullName(PrefixToString(MkPrefix(Id(2, 0)))), Peeled(Id(0, 2))),
      Reference(FullName(PrefixToString(MkPrefix(<<0>>))), Peeled(Id(2, 0))),
      Reference(FullName(PrefixToString(MkPrefix(<<4>>))), Symbolic(FullName(<<"main">>))) }

Repos == { [refs |-> PlainRefs], [refs |-> PlainRefs \cup HexNamedRefs] }

\* Names the grammar consumer passes to find_ref.
RefNames == { <<"HEAD">>, <<"main">>, <<"2">>, <<"nope">> }

\* Error values (enum Error).
AmbiguousRefAndObject(p, r) == [type |-> "AmbiguousRefAndObject", prefix |-> p, reference |-> r]
FindReference(name) == [type |-> "FindReference", name |-> name]
FindObject(cause, what) == [type |-> "FindObject", cause |-> cause, what |-> what]
PeelToKind(cause, oid, actual, expected) ==
    [type |-> "PeelToKind", cause |-> cause, oid |-> oid, actual |-> actual, expected |-> expected]
ObjectKind(oid, actual, expected) ==
    [type |-> "ObjectKind", oid |-> oid, actual |-> actual, expected |-> expected]
ParseError == [type |-> "Parse"]
PrefixNotFound(p) == [type |-> "PrefixNotFound", prefix |-> p]
AmbiguousPrefix(p, info) == [type |-> "AmbiguousPrefix", prefix |-> p, info |-> info]
Multi(current, next) == [type |-> "Multi", current |-> current, next |-> next]

\* repo.refs.find(name)
refs_find(repo, name) ==
    LET found == {r \in repo.refs : r.name = name \/ r.name = FullName(name)}
    IN  IF found = {} THEN Err(FindReference(name)) ELSE Ok(CHOOSE r \in found : TRUE)

\* repo.objects.lookup_prefix(prefix, candidates): NoMatch, or the matching ids.
lookup_prefix(p, io_error) ==
    LET candidates == {o.id : o \in {x \in Objects : PrefixMatches(p, x.id)}}
    IN  IF io_error THEN Err(FindObject("Find", <<>>))
        ELSE IF candidates = {} THEN Ok(None)
        ELSE Ok(Some(candidates))

\* repo.find_object(id)
find_object(id) ==
    LET found == {o \in Objects : o.id = id}
    IN  IF found = {} \/ id \in Unreadable THEN Err(FindObject("NotFound", id))
        ELSE Ok(CHOOSE o \in found : TRUE)

\* Object::peel_to_kind(kind): follow tags to their target and commits to their tree.
RECURSIVE peel_to_kind(_, _)
peel_to_kind(obj, kind) ==
    IF obj.kind = kind THEN Ok(obj)
    ELSE IF obj.kind \in {"commit", "tag"}
    THEN LET next == find_object(Unwrap(obj.target))
         IN  IF next.tag = "Ok" THEN peel_to_kind(next.value, kind)
             ELSE Err(PeelToKind("FindExisting", obj.id, obj.kind, kind))
    ELSE Err(PeelToKind("NotFound", obj.id, obj.kind, kind))

(***************************************************************************)
(* Options and the delegate.                                               *)
(***************************************************************************)
RefsHints == {"PreferObjectOnFullLengthHexShaUseRefOtherwise", "PreferObject", "PreferRef", "Fail"}
ObjectKindHints == {"Commit", "Committish", "Tree", "Treeish", "Blob"}

\* impl Default for RefsHint
DefaultRefsHint == "PreferObjectOnFullLengthHexShaUseRefOtherwise"

\* PeelTo, the argument of peel_until.
PeelTos ==
    {[tag |-> "ValidObject"], [tag |-> "Path"], [tag |-> "RecursiveTagObject"]}
        \cup {[tag |-> "ObjectKind", kind |-> k] : k \in Kinds}

\* What a callback hands back: Some(()) or None, or a panic, and the delegate after it.
\* lookups counts the calls of repo.refs.find the callback made.
Returned(ret, d, n) == [ret |-> ret, self |-> d, lookups |-> n, msg |-> ""]
Panicked(d, n, m) == [ret |-> "Panic", self |-> d, lookups |-> n, msg |-> m]

\* The orders in which a HashSet of ids may be iterated.
Orders(S) == {s \in [1 .. Cardinality(S) -> S] : \A x \in S : \E i \in DOMAIN s : s[i] = x}

Range(s) == {s[i] : i \in DOMAIN s}

\* Error::ambiguous
ambiguous(candidates, p) == AmbiguousPrefix(p, <<>>)

\* from_errors nesting the other way round: the last entry ends up outermost.
from_errors_newest_first(errors) ==
    LET n == Len(errors)
        RECURSIVE Nest(_, _)
        Nest(i, recent) == IF i > n THEN recent ELSE Nest(i + 1, Multi(errors[i], Some(recent)))
    IN  IF n = 0 THEN Panic("assertion failed: !errors.is_empty()")
        ELSE IF n = 1 THEN Ok(errors[1])
        ELSE Ok(Nest(2, Multi(errors[1], None)))

\* from_errors forgetting to link the rest of the list.
from_errors_first_only(errors) ==
    IF Len(errors) = 0 THEN Panic("assertion failed: !errors.is_empty()")
    ELSE IF Len(errors) = 1 THEN Ok(errors[1])
    ELSE Ok(Multi(errors[1], None))

\* Error::from_errors
from_errors(errors) ==
    LET n == Len(errors)
        RECURSIVE Nest(_, _)
        Nest(i, recent) == IF i = 0 THEN recent ELSE Nest(i - 1, Multi(errors[i], Some(recent)))
    IN  IF n = 0 THEN Panic("assertion failed: !errors.is_empty()")
        ELSE IF n = 1 THEN Ok(errors[1])
        ELSE Ok(Nest(n - 1, Multi(errors[n], None)))

\* #[error("{current}")]: what an error displays.
RECURSIVE Display(_)
Display(e) == IF e.type = "Multi" THEN Display(e.current) ELSE e

\* The errors met walking the chain from the outermost value along next.
RECURSIVE Chain(_)
Chain(e) ==
    IF e.type = "Multi"
    THEN <<e.current>> \o (IF e.next = None THEN <<>> ELSE Chain(Unwrap(e.next)))
    ELSE <<e>>

\* peel reporting an object it cannot find as a failure to peel.
peel_missing_as_peel_error(obj, kind) ==
    LET found == find_object(obj)
        peeled == peel_to_kind(found.value, kind)
    IN  IF found.tag = "Err" THEN Err(PeelToKind("NotFound", obj, kind, kind))
        ELSE IF peeled.tag = "Err" THEN peeled
        ELSE Ok(peeled.value.id)

\* fn peel
peel(obj, kind) ==
    LET found == find_object(obj)
        peeled == peel_to_kind(found.value, kind)
    IN  IF found.tag = "Err" THEN found
        ELSE IF peeled.tag = "Err" THEN peeled
        ELSE Ok(peeled.value.id)

\* fn require_object_kind
require_object_kind(obj, kind) ==
    LET found == find_object(obj)
    IN  IF found.tag = "Err" THEN found
        ELSE IF found.value.kind = kind THEN Ok(<<>>)
        ELSE Err(ObjectKind(found.value.id, found.value.kind, kind))

\* The flag left as it is.
unset_disambiguate_call_noop(d) == d

\* Delegate::unset_disambiguate_call
unset_disambiguate_call(d) == [d EXCEPT !.last_call_was_disambiguate_prefix[d.idx] = FALSE]

\* Reference folding that installs nothing.
follow_refs_skipped(d) == Ok(d)

\* Reference folding that installs the target whether or not the side has candidates.
follow_refs_overwrites(d) ==
    LET needed(i) == d.refs[i] # None
        id(i) == try_id(Unwrap(d.refs[i]).target)
    IN  IF \E i \in Sides : needed(i) /\ id(i) = None
        THEN Panic("not yet implemented: follow ref to get direct target object")
        ELSE Ok([d EXCEPT !.objs = [i \in Sides |->
                    IF needed(i) THEN Some({Unwrap(id(i))}) ELSE d.objs[i]]])

\* Reference folding that passes over a symbolic reference in silence.
follow_refs_skips_symbolic(d) ==
    LET needed(i) == d.refs[i] # None /\ d.objs[i] = None
        id(i) == try_id(Unwrap(d.refs[i]).target)
    IN  Ok([d EXCEPT !.objs = [i \in Sides |->
                IF needed(i) /\ id(i) # None THEN Some({Unwrap(id(i))}) ELSE d.objs[i]]])

\* Delegate::follow_refs_to_objects_if_needed
follow_refs_to_objects_if_needed(d) ==
    LET needed(i) == d.refs[i] # None /\ d.objs[i] = None
        id(i) == try_id(Unwrap(d.refs[i]).target)
    IN  IF \E i \in Sides : needed(i) /\ id(i) = None
        THEN Panic("not yet implemented: follow ref to get direct target object")
        ELSE Ok([d EXCEPT !.objs = [i \in Sides |->
                    IF needed(i) THEN Some({Unwrap(id(i))}) ELSE d.objs[i]]])

\* The (obj, err) pairs of the candidates whose check failed, in iteration order;
\* checked maps every candidate to the Result of its check.
Failures(order, checked) ==
    LET failing == SelectSeq(order, LAMBDA o : checked[o].tag = "Err")
    IN  [i \in 1 .. Len(failing) |-> <<failing[i], checked[failing[i]].error>>]

ErrorsOf(errors) == [i \in 1 .. Len(errors) |-> errors[i][2]]
\* No candidate is taken for removal.
ObjsOf_none(errors) == {}

ObjsOf(errors) == {errors[i][1] : i \in 1 .. Len(errors)}

\* Every hint peels, the exact ones too.
hint_check_always_peels(h, obj) ==
    LET kind == CASE h \in {"Treeish", "Tree"} -> "tree"
                  [] h \in {"Committish", "Commit"} -> "commit"
                  [] OTHER -> "blob"
    IN  peel(obj, kind)

\* The check the configured ObjectKindHint makes of one candidate: the -ish hints peel,
\* the others compare the candidate's own kind.
hint_check(h, obj) ==
    LET kind == CASE h \in {"Treeish", "Tree"} -> "tree"
                  [] h \in {"Committish", "Commit"} -> "commit"
                  [] OTHER -> "blob"
    IN  IF h \in {"Treeish", "Committish"} THEN peel(obj, kind)
        ELSE require_object_kind(obj, kind)

\* The failing candidates are recorded but never removed.
remove_failed_candidates_keeps_all(d, objs, errors) == [d EXCEPT !.err = @ \o ErrorsOf(errors)]

\* The errors are dropped when every candidate failed.
remove_failed_candidates_silent(d, objs, errors) ==
    IF Len(errors) = Cardinality(objs) THEN d
    ELSE [d EXCEPT !.objs[d.idx] = Some(objs \ ObjsOf(errors)),
                   !.err = @ \o ErrorsOf(errors)]

\* The failing candidates are removed also when every candidate failed.
remove_failed_candidates_always(d, objs, errors) ==
    [d EXCEPT !.objs[d.idx] = Some(objs \ ObjsOf(errors)),
              !.err = @ \o ErrorsOf(errors)]

\* if errors.len() == objs.len() { record } else { remove and record }
remove_failed_candidates(d, objs, errors) ==
    IF Len(errors) = Cardinality(objs)
    THEN [d EXCEPT !.err = @ \o ErrorsOf(errors)]
    ELSE [d EXCEPT !.objs[d.idx] = Some(objs \ ObjsOf(errors)),
                   !.err = @ \o ErrorsOf(errors)]

\* The fallback pass taking Commit as the hint when none is configured.
fallback_hint_defaults_to_commit(d, order) ==
    IF d.last_call_was_disambiguate_prefix[d.idx]
    THEN LET d1 == unset_disambiguate_call(d)
             hint == IF d1.opts.object_kind_hint = None THEN "Commit"
                     ELSE Unwrap(d1.opts.object_kind_hint)
             objs == Unwrap(d1.objs[d1.idx])
             errors == Failures(order, [o \in objs |-> hint_check(hint, o)])
         IN  IF d1.objs[d1.idx] = None THEN d1
             ELSE remove_failed_candidates(d1, objs, errors)
    ELSE d

\* Delegate::disambiguate_objects_by_fallback_hint; order is the iteration order of the set.
disambiguate_objects_by_fallback_hint(d, order) ==
    IF d.last_call_was_disambiguate_prefix[d.idx]
    THEN LET d1 == unset_disambiguate_call(d)
             hint == d1.opts.object_kind_hint
             objs == Unwrap(d1.objs[d1.idx])
             errors == Failures(order, [o \in objs |-> hint_check(Unwrap(hint), o)])
         IN  IF d1.objs[d1.idx] = None THEN d1
             ELSE IF hint = None THEN d1
             ELSE remove_failed_candidates(d1, objs, errors)
    ELSE d

\* impl parse::Delegate: done
done(d, order) ==
    LET folded == follow_refs_to_objects_if_needed(d)
    IN  IF folded.tag = "Panic" THEN Panicked(d, 0, folded.msg)
        ELSE Returned("Some", disambiguate_objects_by_fallback_hint(folded.value, order), 0)

\* find_ref without the call that clears the flag.
find_ref_keeps_flag(d, name) ==
    LET found == refs_find(d.repo, name)
    IN  IF d.err # <<>> /\ d.refs[d.idx] # None THEN Returned("None", d, 0)
        ELSE IF found.tag = "Ok"
        THEN IF d.refs[d.idx] # None
             THEN Panicked(d, 1, "BUG: cannot set the same ref twice")
             ELSE Returned("Some", [d EXCEPT !.refs[d.idx] = Some(found.value)], 1)
        ELSE Returned("None", [d EXCEPT !.err = Append(@, found.error)], 1)

\* find_ref starting the log afresh with its own error.
find_ref_resets_log(d, name) ==
    LET d1 == unset_disambiguate_call(d)
        found == refs_find(d1.repo, name)
    IN  IF d1.err # <<>> /\ d1.refs[d1.idx] # None THEN Returned("None", d1, 0)
        ELSE IF found.tag = "Ok"
        THEN IF d1.refs[d1.idx] # None
             THEN Panicked(d1, 1, "BUG: cannot set the same ref twice")
             ELSE Returned("Some", [d1 EXCEPT !.refs[d1.idx] = Some(found.value)], 1)
        ELSE Returned("None", [d1 EXCEPT !.err = <<found.error>>], 1)

\* find_ref without the early return: the store is asked whatever the log holds.
find_ref_unguarded(d, name) ==
    LET d1 == unset_disambiguate_call(d)
        found == refs_find(d1.repo, name)
    IN  IF found.tag = "Ok"
        THEN IF d1.refs[d1.idx] # None
             THEN Panicked(d1, 1, "BUG: cannot set the same ref twice")
             ELSE Returned("Some", [d1 EXCEPT !.refs[d1.idx] = Some(found.value)], 1)
        ELSE Returned("None", [d1 EXCEPT !.err = Append(@, found.error)], 1)

\* impl delegate::Revision: find_ref
find_ref(d, name) ==
    LET d1 == unset_disambiguate_call(d)
        found == refs_find(d1.repo, name)
    IN  IF d1.err # <<>> /\ d1.refs[d1.idx] # None THEN Returned("None", d1, 0)
        ELSE IF found.tag = "Ok"
        THEN IF d1.refs[d1.idx] # None
             THEN Panicked(d1, 1, "BUG: cannot set the same ref twice")
             ELSE Returned("Some", [d1 EXCEPT !.refs[d1.idx] = Some(found.value)], 1)
        ELSE Returned("None", [d1 EXCEPT !.err = Append(@, found.error)], 1)

\* The comparison the wrong way round: no prefix counts as full length.
is_full_length_never(p) == p.hex_len > HexLen

\* prefix.hex_len() == candidates.iter().next().expect("at least one").kind().len_in_hex()
is_full_length(p) == p.hex_len = HexLen

\* The candidates stored under the other side's index.
keep_objects_other_side(d, candidates) ==
    Returned("Some", [d EXCEPT !.objs[1 - d.idx] = Some(candidates)], 0)

\* self.objs[self.idx] = Some(candidates); Some(())
keep_objects(d, candidates) == Returned("Some", [d EXCEPT !.objs[d.idx] = Some(candidates)], 0)

\* The two errors of RefsHint::Fail pushed in the other order.
use_reference_swapped(d, p, candidates, ref_) ==
    IF d.refs[d.idx] # None THEN Panicked(d, 1, "BUG: cannot set the same ref twice")
    ELSE IF d.opts.refs_hint = "Fail"
    THEN Returned("None",
             [d EXCEPT !.refs[d.idx] = Some(ref_),
                       !.err = @ \o <<ambiguous(candidates, p), AmbiguousRefAndObject(p, ref_)>>], 1)
    ELSE Returned("Some", [d EXCEPT !.refs[d.idx] = Some(ref_)], 1)

\* The reference used while the matches are kept as candidates as well.
use_reference_keeps_candidates(d, p, candidates, ref_) ==
    IF d.refs[d.idx] # None THEN Panicked(d, 1, "BUG: cannot set the same ref twice")
    ELSE IF d.opts.refs_hint = "Fail"
    THEN Returned("None",
             [d EXCEPT !.refs[d.idx] = Some(ref_),
                       !.objs[d.idx] = Some(candidates),
                       !.err = @ \o <<AmbiguousRefAndObject(p, ref_), ambiguous(candidates, p)>>], 1)
    ELSE Returned("Some", [d EXCEPT !.refs[d.idx] = Some(ref_),
                                    !.objs[d.idx] = Some(candidates)], 1)

\* The reference named like the prefix exists: fail under RefsHint::Fail, else use it.
use_reference(d, p, candidates, ref_) ==
    IF d.refs[d.idx] # None THEN Panicked(d, 1, "BUG: cannot set the same ref twice")
    ELSE IF d.opts.refs_hint = "Fail"
    THEN Returned("None",
             [d EXCEPT !.refs[d.idx] = Some(ref_),
                       !.err = @ \o <<AmbiguousRefAndObject(p, ref_), ambiguous(candidates, p)>>], 1)
    ELSE Returned("Some", [d EXCEPT !.refs[d.idx] = Some(ref_)], 1)

\* disambiguate_prefix setting the flag and the prefix only once objects matched.
disambiguate_prefix_records_late(d, p, io_error) ==
    LET d1 == [d EXCEPT !.last_call_was_disambiguate_prefix[d.idx] = TRUE,
                        !.prefix[d.idx] = Some(p)]
        looked == lookup_prefix(p, io_error)
        candidates == Unwrap(looked.value)
        found == refs_find(d1.repo, PrefixToString(p))
        kept == keep_objects(d1, candidates)
    IN  IF looked.tag = "Err" THEN Returned("None", [d EXCEPT !.err = Append(@, looked.error)], 0)
        ELSE IF looked.value = None
        THEN Returned("None", [d EXCEPT !.err = Append(@, PrefixNotFound(p))], 0)
        ELSE IF d1.objs[d1.idx] # None
        THEN Panicked(d1, 0, "BUG: cannot set the same prefix twice")
        ELSE IF d1.opts.refs_hint = "PreferObjectOnFullLengthHexShaUseRefOtherwise"
                /\ is_full_length(p)
        THEN kept
        ELSE IF d1.opts.refs_hint = "PreferObject" THEN kept
        ELSE IF found.tag = "Ok" THEN use_reference(d1, p, candidates, found.value)
        ELSE [kept EXCEPT !.lookups = 1]

\* disambiguate_prefix recording the prefix under the other side's index.
disambiguate_prefix_prefix_other_side(d, p, io_error) ==
    LET d1 == [d EXCEPT !.last_call_was_disambiguate_prefix[d.idx] = TRUE,
                        !.prefix[1 - d.idx] = Some(p)]
        looked == lookup_prefix(p, io_error)
        candidates == Unwrap(looked.value)
        found == refs_find(d1.repo, PrefixToString(p))
        kept == keep_objects(d1, candidates)
    IN  IF looked.tag = "Err" THEN Returned("None", [d1 EXCEPT !.err = Append(@, looked.error)], 0)
        ELSE IF looked.value = None
        THEN Returned("None", [d1 EXCEPT !.err = Append(@, PrefixNotFound(p))], 0)
        ELSE IF d1.objs[d1.idx] # None
        THEN Panicked(d1, 0, "BUG: cannot set the same prefix twice")
        ELSE IF d1.opts.refs_hint = "PreferObjectOnFullLengthHexShaUseRefOtherwise"
                /\ is_full_length(p)
        THEN kept
        ELSE IF d1.opts.refs_hint = "PreferObject" THEN kept
        ELSE IF found.tag = "Ok" THEN use_reference(d1, p, candidates, found.value)
        ELSE [kept EXCEPT !.lookups = 1]

\* impl delegate::Revision: disambiguate_prefix
disambiguate_prefix(d, p, io_error) ==
    LET d1 == [d EXCEPT !.last_call_was_disambiguate_prefix[d.idx] = TRUE,
                        !.prefix[d.idx] = Some(p)]
        looked == lookup_prefix(p, io_error)
        candidates == Unwrap(looked.value)
        found == refs_find(d1.repo, PrefixToString(p))
        kept == keep_objects(d1, candidates)
    IN  IF looked.tag = "Err" THEN Returned("None", [d1 EXCEPT !.err = Append(@, looked.error)], 0)
        ELSE IF looked.value = None
        THEN Returned("None", [d1 EXCEPT !.err = Append(@, PrefixNotFound(p))], 0)
        ELSE IF d1.objs[d1.idx] # None
        THEN Panicked(d1, 0, "BUG: cannot set the same prefix twice")
        ELSE IF d1.opts.refs_hint = "PreferObjectOnFullLengthHexShaUseRefOtherwise"
                /\ is_full_length(p)
        THEN kept
        ELSE IF d1.opts.refs_hint = "PreferObject" THEN kept
        ELSE IF found.tag = "Ok" THEN use_reference(d1, p, candidates, found.value)
        ELSE [kept EXCEPT !.lookups = 1]

\* The replacements applied the other way round: insert replace, then remove find.
RECURSIVE Replace_inserts_first(_, _)
Replace_inserts_first(objs, replacements) ==
    IF replacements = <<>> THEN objs
    ELSE Replace_inserts_first((objs \cup {Head(replacements)[2]}) \ {Head(replacements)[1]},
                               Tail(replacements))

\* The replacements applied without removing what was found.
RECURSIVE Replace_keeps_found(_, _)
Replace_keeps_found(objs, replacements) ==
    IF replacements = <<>> THEN objs
    ELSE Replace_keeps_found(objs \cup {Head(replacements)[2]}, Tail(replacements))

\* SmallVec of (find, replace) applied in order: remove find, insert replace.
RECURSIVE Replace(_, _)
Replace(objs, replacements) ==
    IF replacements = <<>> THEN objs
    ELSE Replace((objs \ {Head(replacements)[1]}) \cup {Head(replacements)[2]}, Tail(replacements))

\* peel_until removing the failing candidates also when every candidate failed.
peel_until_empties(d, kind, order) ==
    LET d1 == unset_disambiguate_call(d)
        folded == follow_refs_to_objects_if_needed(d1)
        d2 == folded.value
        objs == Unwrap(d2.objs[d2.idx])
        errors == IF kind.tag = "ValidObject"
                  THEN Failures(order, [o \in objs |-> find_object(o)])
                  ELSE Failures(order, [o \in objs |-> peel(o, kind.kind)])
        peeling == SelectSeq(order, LAMBDA o : peel(o, kind.kind).tag = "Ok")
        replacements == IF kind.tag = "ValidObject" THEN <<>>
                        ELSE [i \in 1 .. Len(peeling) |-> <<peeling[i], peel(peeling[i], kind.kind).value>>]
        narrowed == [d2 EXCEPT !.objs[d2.idx] = Some(Replace(objs \ ObjsOf(errors), replacements)),
                               !.err = @ \o ErrorsOf(errors)]
    IN  IF folded.tag = "Panic" THEN Panicked(d1, 0, folded.msg)
        ELSE IF d2.objs[d2.idx] = None THEN Returned("None", d2, 0)
        ELSE IF kind.tag = "Path" THEN Panicked(d2, 0, "not yet implemented: lookup path")
        ELSE IF kind.tag = "RecursiveTagObject"
        THEN Panicked(d2, 0, "not yet implemented: recursive tag object")
        ELSE IF Len(errors) = Cardinality(objs) THEN Returned("None", narrowed, 0)
        ELSE Returned("Some", narrowed, 0)

\* impl delegate::Navigate: peel_until; order is the iteration order of the set.
peel_until(d, kind, order) ==
    LET d1 == unset_disambiguate_call(d)
        folded == follow_refs_to_objects_if_needed(d1)
        d2 == folded.value
        objs == Unwrap(d2.objs[d2.idx])
        errors == IF kind.tag = "ValidObject"
                  THEN Failures(order, [o \in objs |-> find_object(o)])
                  ELSE Failures(order, [o \in objs |-> peel(o, kind.kind)])
        peeling == SelectSeq(order, LAMBDA o : peel(o, kind.kind).tag = "Ok")
        replacements == IF kind.tag = "ValidObject" THEN <<>>
                        ELSE [i \in 1 .. Len(peeling) |-> <<peeling[i], peel(peeling[i], kind.kind).value>>]
    IN  IF folded.tag = "Panic" THEN Panicked(d1, 0, folded.msg)
        ELSE IF d2.objs[d2.idx] = None THEN Returned("None", d2, 0)
        ELSE IF kind.tag = "Path" THEN Panicked(d2, 0, "not yet implemented: lookup path")
        ELSE IF kind.tag = "RecursiveTagObject"
        THEN Panicked(d2, 0, "not yet implemented: recursive tag object")
        ELSE IF Len(errors) = Cardinality(objs)
        THEN Returned("None", [d2 EXCEPT !.err = @ \o ErrorsOf(errors)], 0)
        ELSE Returned("Some",
                 [d2 EXCEPT !.objs[d2.idx] = Some(Replace(objs \ ObjsOf(errors), replacements)),
                            !.err = @ \o ErrorsOf(errors)], 0)

\* An unsupported callback that fails before clearing the flag.
unsupported_keeps_flag(d) == Panicked(d, 0, "not yet implemented")

\* reflog, nth_checked_out_branch, sibling_branch, traverse, find, index_lookup
unsupported(d) == Panicked(unset_disambiguate_call(d), 0, "not yet implemented")

\* kind() implemented: the range kind recorded and the second side made active.
kind_callback_switches_side(d) ==
    Returned("Some", [d EXCEPT !.kind = Some("Range"), !.idx = 1], 0)

\* impl delegate::Kind: kind
kind_callback(d) == Panicked(d, 0, "not yet implemented: kind, deal with ^ and .. and ... correctly")

\* The ambiguity error returned without the errors accumulated so far.
ambiguity_err_alone(c, p, errors) ==
    IF p = None THEN Panic("set when obtaining candidates")
    ELSE Err(ambiguous(c, Unwrap(p)))

\* errors.insert(0, Error::ambiguous(..)); return Err(Error::from_errors(errors))
ambiguity_err(c, p, errors) ==
    LET e == from_errors(<<ambiguous(c, Unwrap(p))>> \o errors)
    IN  IF p = None THEN Panic("set when obtaining candidates")
        ELSE IF e.tag = "Ok" THEN Err(e.value) ELSE e

\* fn zero_or_one_objects_or_ambguity_err
zero_or_one_objects_or_ambguity_err(candidates, prefixes, errors) ==
    LET RECURSIVE Loop(_, _)
        Loop(i, out) ==
            IF i \notin Sides THEN Ok(out)
            ELSE IF candidates[i] = None THEN Loop(i + 1, [out EXCEPT ![i] = None])
            ELSE LET c == Unwrap(candidates[i])
                 IN  IF Cardinality(c) = 0
                     THEN Panic("BUG: let's avoid still being around if no candidate matched the requirements")
                     ELSE IF Cardinality(c) = 1
                     THEN Loop(i + 1, [out EXCEPT ![i] = Some(CHOOSE x \in c : TRUE)])
                     ELSE ambiguity_err(c, prefixes[i], errors)
    IN  Loop(0, [i \in Sides |-> None])

\* RevSpec::from_bstr once parse() has returned: Err(Delegate) after a callback gave up.
from_bstr_delegate_error(d) ==
    LET e == from_errors(d.err)
    IN  IF e.tag = "Ok" THEN Err(e.value) ELSE e

\* RevSpec::from_bstr once parse() has returned Ok(()).
from_bstr_ok(d) ==
    LET range == zero_or_one_objects_or_ambguity_err(d.objs, d.prefix, d.err)
    IN  IF range.tag = "Ok"
        THEN Ok([from_ref |-> d.refs[0], from |-> range.value[0],
                 to_ref |-> d.refs[1], to |-> range.value[1], kind |-> d.kind])
        ELSE range

(***************************************************************************)
(* The resolution as a state machine: the delegate's fields, and the       *)
(* position of RevSpec::from_bstr.                                         *)
(***************************************************************************)
VARIABLES
    refs, objs, idx, kind, err, prefix, last_call_was_disambiguate_prefix, opts, repo,
    pc,          \* "parsing", "returned" or "panicked"
    ret,         \* what the last callback returned: "Some", "None" or "Panic"
    outcome,     \* the Result from_bstr returned, once it has
    panic,       \* the message of the panic, once there is one
    calls,       \* the callbacks invoked so far, with their arguments
    ref_lookups  \* the number of repo.refs.find calls made so far

\* gix-actor signature::decode: its input and what it returned.
VARIABLES
    input,       \* the input i
    decoded      \* the IResult, once decode has run

\* git-repository ThreadSafeRepository::init_opts: the new repository and its environment.
VARIABLES
    config,      \* the resolved init.defaultBranch value and the step that fails, if any
    HEAD,        \* the target of HEAD in the directory, once there is one
    edits,       \* the reference edits made through edit_reference
    init_result  \* the Result init_opts returned, once it has

signature_vars == <<input, decoded>>
init_vars == <<config, HEAD, edits, init_result>>

vars == <<refs, objs, idx, kind, err, prefix, last_call_was_disambiguate_prefix, opts, repo,
          pc, ret, outcome, panic, calls, ref_lookups, input, decoded,
          config, HEAD, edits, init_result>>

\* No signature is being decoded.
NoSignature == input = <<>> /\ decoded = None

\* No repository is being initialized.
NoNewRepository ==
    /\ config = [defaultBranch |-> None, fails |-> "nothing"]
    /\ HEAD = None
    /\ edits = <<>>
    /\ init_result = None

\* The delegate as one value.
Self ==
    [refs |-> refs, objs |-> objs, idx |-> idx, kind |-> kind, err |-> err, prefix |-> prefix,
     last_call_was_disambiguate_prefix |-> last_call_was_disambiguate_prefix,
     opts |-> opts, repo |-> repo]

\* let mut delegate = Delegate { .. }
Init ==
    /\ refs = [i \in Sides |-> None]
    /\ objs = [i \in Sides |-> None]
    /\ idx = 0
    /\ kind = None
    /\ err = <<>>
    /\ prefix = [i \in Sides |-> None]
    /\ last_call_was_disambiguate_prefix = [i \in Sides |-> FALSE]
    /\ opts \in [refs_hint : RefsHints,
                 object_kind_hint : {None} \cup {Some(h) : h \in ObjectKindHints}]
    /\ repo \in Repos
    /\ pc = "parsing"
    /\ ret = ""
    /\ outcome = None
    /\ panic = ""
    /\ calls = <<>>
    /\ ref_lookups = 0
    /\ NoSignature
    /\ NoNewRepository

\* The sets the callback about to run may iterate, in every order.
IterationOrders(d) ==
    LET folded == follow_refs_to_objects_if_needed(d)
    IN  IF folded.tag = "Ok" /\ folded.value.objs[d.idx] # None
        THEN Orders(Unwrap(folded.value.objs[d.idx]))
        ELSE {<<>>}

\* The delegate after a callback, and what from_bstr does with the callback's answer:
\* go on parsing, return the aggregated error, or (after done) reduce the sides.
Resume(call, r) ==
    LET res == IF r.ret = "Panic" THEN Panic(r.msg)
               ELSE IF r.ret = "None" THEN from_bstr_delegate_error(r.self)
               ELSE from_bstr_ok(r.self)
    IN  /\ refs' = r.self.refs
        /\ objs' = r.self.objs
        /\ idx' = r.self.idx
        /\ kind' = r.self.kind
        /\ err' = r.self.err
        /\ prefix' = r.self.prefix
        /\ last_call_was_disambiguate_prefix' = r.self.last_call_was_disambiguate_prefix
        /\ UNCHANGED <<opts, repo, signature_vars, init_vars>>
        /\ ret' = r.ret
        /\ calls' = Append(calls, call)
        /\ ref_lookups' = ref_lookups + r.lookups
        /\ IF r.ret = "Some" /\ call.name # "done"
           THEN pc' = "parsing" /\ UNCHANGED <<outcome, panic>>
           ELSE IF res.tag = "Panic"
           THEN pc' = "panicked" /\ panic' = res.msg /\ UNCHANGED outcome
           ELSE pc' = "returned" /\ outcome' = Some(res) /\ UNCHANGED panic

Call(name, arg) == [name |-> name, arg |-> arg]

MayCall == pc = "parsing" /\ Len(calls) < MaxCalls

DisambiguatePrefixCall(p) == Call("disambiguate_prefix", [prefix |-> p, io_error |-> FALSE])

FindRef ==
    /\ MayCall
    /\ \E name \in RefNames : Resume(Call("find_ref", name), find_ref(Self, name))

DisambiguatePrefix ==
    /\ MayCall
    /\ \E p \in Prefixes, io_error \in BOOLEAN :
           Resume(Call("disambiguate_prefix", [prefix |-> p, io_error |-> io_error]),
                  disambiguate_prefix(Self, p, io_error))

PeelUntil ==
    /\ MayCall
    /\ \E to \in PeelTos, order \in IterationOrders(Self) :
           Resume(Call("peel_until", to), peel_until(Self, to, order))

Reflog == MayCall /\ Resume(Call("reflog", <<>>), unsupported(Self))

NthCheckedOutBranch == MayCall /\ Resume(Call("nth_checked_out_branch", <<>>), unsupported(Self))

SiblingBranch == MayCall /\ Resume(Call("sibling_branch", <<>>), unsupported(Self))

Traverse == MayCall /\ Resume(Call("traverse", <<>>), unsupported(Self))

Find == MayCall /\ Resume(Call("find", <<>>), unsupported(Self))

IndexLookup == MayCall /\ Resume(Call("index_lookup", <<>>), unsupported(Self))

KindCallback == MayCall /\ Resume(Call("kind", <<>>), kind_callback(Self))

Done ==
    /\ pc = "parsing"
    /\ \E order \in IterationOrders(Self) : Resume(Call("done", <<>>), done(Self, order))

\* parse() rejects the text itself: Err(err) => return Err(err.into())
ParseFails ==
    /\ pc = "parsing"
    /\ pc' = "returned"
    /\ outcome' = Some(Err(ParseError))
    /\ UNCHANGED <<refs, objs, idx, kind, err, prefix, last_call_was_disambiguate_prefix,
                   opts, repo, ret, panic, calls, ref_lookups, signature_vars, init_vars>>

Next ==
    \/ FindRef
    \/ DisambiguatePrefix
    \/ PeelUntil
    \/ Reflog
    \/ NthCheckedOutBranch
    \/ SiblingBranch
    \/ Traverse
    \/ Find
    \/ IndexLookup
    \/ KindCallback
    \/ Done
    \/ ParseFails

Spec == Init /\ [][Next]_vars

(***************************************************************************)
(* The resolution driven through the implemented callbacks only (find_ref,  *)
(* disambiguate_prefix, peel_until, done), for longer callback sequences.   *)
(***************************************************************************)
\* Number of callbacks before done() in these longer sequences.
MaxNarrowing == 4

\* Prefixes used in the longer sequences: one matching objects of every kind, one
\* matching tags and an unreadable object, one matching nothing.
NarrowingPrefixes == {MkPrefix(<<0>>), MkPrefix(<<3>>), MkPrefix(Id(1, 4))}

\* Names used in the longer sequences: a stored reference and an unknown name.
NarrowingRefNames == {<<"main">>, <<"nope">>}

MayNarrow == pc = "parsing" /\ Len(calls) < MaxNarrowing

NarrowingFindRef ==
    /\ MayNarrow
    /\ \E name \in NarrowingRefNames : Resume(Call("find_ref", name), find_ref(Self, name))

NarrowingDisambiguatePrefix ==
    /\ MayNarrow
    /\ \E p \in NarrowingPrefixes :
           Resume(DisambiguatePrefixCall(p), disambiguate_prefix(Self, p, FALSE))

NarrowingPeelUntil ==
    /\ MayNarrow
    /\ \E to \in PeelTos, order \in IterationOrders(Self) :
           Resume(Call("peel_until", to), peel_until(Self, to, order))

NextNarrowing ==
    \/ NarrowingFindRef
    \/ NarrowingDisambiguatePrefix
    \/ NarrowingPeelUntil
    \/ Done

SpecNarrowing == Init /\ [][NextNarrowing]_vars

(***************************************************************************)
(* The aggregator on its own: from_bstr returning Err(from_errors(err))    *)
(* for every error log of up to MaxErrors entries.                         *)
(***************************************************************************)
ErrorSamples ==
    { PrefixNotFound(MkPrefix(<<1>>)), FindReference(<<"nope">>),
      FindObject("NotFound", Id(3, 2)), AmbiguousPrefix(MkPrefix(<<0>>), <<>>) }

InitFromErrors ==
    /\ refs = [i \in Sides |-> None]
    /\ objs = [i \in Sides |-> None]
    /\ idx = 0
    /\ kind = None
    /\ err \in UNION {[1 .. n -> ErrorSamples] : n \in 0 .. MaxErrors}
    /\ prefix = [i \in Sides |-> None]
    /\ last_call_was_disambiguate_prefix = [i \in Sides |-> FALSE]
    /\ opts = [refs_hint |-> DefaultRefsHint, object_kind_hint |-> None]
    /\ repo = [refs |-> PlainRefs]
    /\ pc = "aggregating"
    /\ ret = "None"
    /\ outcome = None
    /\ panic = ""
    /\ calls = <<>>
    /\ ref_lookups = 0
    /\ NoSignature
    /\ NoNewRepository

\* Err(parse::Error::Delegate) => return Err(Error::from_errors(delegate.err))
Aggregate ==
    /\ pc = "aggregating"
    /\ LET res == from_bstr_delegate_error(Self)
       IN  IF res.tag = "Panic"
           THEN pc' = "panicked" /\ panic' = res.msg /\ UNCHANGED outcome
           ELSE pc' = "returned" /\ outcome' = Some(res) /\ UNCHANGED panic
    /\ UNCHANGED <<refs, objs, idx, kind, err, prefix, last_call_was_disambiguate_prefix,
                   opts, repo, ret, calls, ref_lookups, signature_vars, init_vars>>

NextFromErrors == Aggregate

SpecFromErrors == InitFromErrors /\ [][NextFromErrors]_vars

(***************************************************************************)
(* The variables of the resolution while another function is looked at.    *)
(***************************************************************************)
NoResolution ==
    /\ refs = [i \in Sides |-> None]
    /\ objs = [i \in Sides |-> None]
    /\ idx = 0
    /\ kind = None
    /\ err = <<>>
    /\ prefix = [i \in Sides |-> None]
    /\ last_call_was_disambiguate_prefix = [i \in Sides |-> FALSE]
    /\ opts = [refs_hint |-> DefaultRefsHint, object_kind_hint |-> None]
    /\ repo = [refs |-> PlainRefs]
    /\ pc = "idle"
    /\ ret = ""
    /\ outcome = None
    /\ panic = ""
    /\ calls = <<>>
    /\ ref_lookups = 0

delegate_vars ==
    <<refs, objs, idx, kind, err, prefix, last_call_was_disambiguate_prefix, opts, repo,
      pc, ret, outcome, panic, calls, ref_lookups>>

(***************************************************************************)
(* Signature decoding: gix-actor/src/signature/decode.rs.  Bytes are       *)
(* one-character strings, an input a sequence of them; a parser answers    *)
(* Ok([rest, out]) or Err([kind, section]) like nom's IResult.             *)
(***************************************************************************)
\* Length of the text after the timestamp in the inputs tried.
MaxTzLen == 5

DigitChars == <<"0", "1", "2", "3", "4", "5", "6", "7", "8", "9">>

\* nom::character::is_digit
is_digit(c) == \E k \in 1 .. 10 : DigitChars[k] = c

DigitValue(c) == (CHOOSE k \in 1 .. 10 : DigitChars[k] = c) - 1

Drop(s, n) == SubSeq(s, n + 1, Len(s))
Take(s, n) == SubSeq(s, 1, n)

Parsed(rest, out) == Ok([rest |-> rest, out |-> out])
Failure(k, section) == Err([kind |-> k, section |-> section])

\* The value of a run of decimal digits.
RECURSIVE Decimal(_)
Decimal(v) == IF v = <<>> THEN 0 ELSE 10 * Decimal(Take(v, Len(v) - 1)) + DigitValue(v[Len(v)])

\* btoi::btoi on the bytes that reach it here, none of which carries a sign: the
\* number, or an error for no digits or a byte that is no digit.
btoi(v) ==
    IF v = <<>> \/ \E k \in 1 .. Len(v) : ~is_digit(v[k]) THEN Err("InvalidDigit")
    ELSE Ok(Decimal(v))

\* nom take_until(pat): everything before the first occurrence of pat.
take_until(i, pat, section) ==
    LET at == {k \in 0 .. Len(i) - Len(pat) : SubSeq(i, k + 1, k + Len(pat)) = pat}
        first == CHOOSE k \in at : \A j \in at : k <= j
    IN  IF at = {} THEN Failure("TakeUntil", section)
        ELSE Parsed(Drop(i, first), Take(i, first))

\* nom take(n)
take(i, n, section) ==
    IF Len(i) < n THEN Failure("Eof", section) ELSE Parsed(Drop(i, n), Take(i, n))

\* nom terminated(take_until(pat), take(n)): the bytes before pat, n bytes dropped.
terminated(i, pat, n, section) ==
    LET first == take_until(i, pat, section)
        second == take(first.value.rest, n, section)
    IN  IF first.tag = "Err" THEN first
        ELSE IF second.tag = "Err" THEN second
        ELSE Parsed(second.value.rest, first.value.out)

\* nom tag(t)
tag(i, t, section) ==
    IF Len(i) >= Len(t) /\ Take(i, Len(t)) = t THEN Parsed(Drop(i, Len(t)), t)
    ELSE Failure("Tag", section)

\* nom many1_count(tag(c)): the number of leading bytes c, which must be at least one.
many1_count(i, c, section) ==
    LET runs == {n \in 0 .. Len(i) : \A j \in 1 .. n : i[j] = c}
        count == CHOOSE n \in runs : \A m \in runs : m <= n
    IN  IF count = 0 THEN Failure("Many1Count", section)
        ELSE Parsed(Drop(i, count), count)

\* nom take_while_m_n(m, n, is_digit): between m and n leading digits, as many as there are.
take_while_m_n(i, m, n, section) ==
    LET runs == {k \in 0 .. Len(i) : k <= n /\ \A j \in 1 .. k : is_digit(i[j])}
        count == CHOOSE k \in runs : \A j \in runs : j <= k
    IN  IF count < m THEN Failure("TakeWhileMN", section)
        ELSE Parsed(Drop(i, count), Take(i, count))

\* A number parser: the bytes a parser took, converted by btoi (MapRes on failure).
number(taken, section) ==
    LET v == btoi(taken.value.out)
    IN  IF taken.tag = "Err" THEN taken
        ELSE IF v.tag = "Err" THEN Failure("MapRes", section)
        ELSE Parsed(taken.value.rest, v.value)

\* fn identity: name and email, "<name> <<email>>"
identity(i) ==
    LET name == terminated(i, <<" ", "<">>, 2, "<name>")
        email == terminated(name.value.rest, <<">">>, 1, "<email>")
    IN  IF name.tag = "Err" THEN name
        ELSE IF email.tag = "Err" THEN email
        ELSE Parsed(email.value.rest, [name |-> name.value.out, email |-> email.value.out])

\* alt((many1_count(tag(b"-")) setting tzsign to b'-', many1_count(tag(b"+")) to b'+'))
tzsign_parser(i) ==
    LET minus == many1_count(i, "-", "+|-")
        plus == many1_count(i, "+", "+|-")
    IN  IF minus.tag = "Ok" THEN Parsed(minus.value.rest, "-")
        ELSE IF plus.tag = "Ok" THEN Parsed(plus.value.rest, "+")
        ELSE Failure("Alt", "+|-")

\* The sign taken from the computed offset, so that an offset of zero is never Minus.
time_zone_sign_of_offset(tzsign, hours, minutes) ==
    LET offset == (hours * 3600 + minutes * 60) * (IF tzsign = "-" THEN -1 ELSE 1)
    IN  [offset |-> offset, sign |-> IF offset < 0 THEN "Minus" ELSE "Plus"]

\* let sign = ..; let offset = (hours * 3600 + minutes * 60) * if sign == Sign::Minus ..
\* (OffsetInSeconds: two digits each keep the product far inside its width.)
time_zone(tzsign, hours, minutes) ==
    LET sign == IF tzsign = "-" THEN "Minus" ELSE "Plus"
    IN  [offset |-> (hours * 3600 + minutes * 60) * (IF sign = "Minus" THEN -1 ELSE 1),
         sign |-> sign]

\* pub fn decode
decode(i) ==
    LET ident == identity(i)
        space == tag(ident.value.rest, <<" ">>, "<name> <<email>> <timestamp> <+|-><HHMM>")
        time == number(terminated(space.value.rest, <<" ">>, 1, "<timestamp>"), "<timestamp>")
        tzsign == tzsign_parser(time.value.rest)
        hours == number(take_while_m_n(tzsign.value.rest, 2, 2, "HH"), "HH")
        minutes == number(take_while_m_n(hours.value.rest, 1, 2, "MM"), "MM")
        zone == time_zone(tzsign.value.out, hours.value.out, minutes.value.out)
    IN  IF ident.tag = "Err" THEN ident
        ELSE IF space.tag = "Err" THEN space
        ELSE IF time.tag = "Err" THEN time
        ELSE IF tzsign.tag = "Err" THEN tzsign
        ELSE IF hours.tag = "Err" THEN hours
        ELSE IF minutes.tag = "Err" THEN minutes
        ELSE Parsed(minutes.value.rest,
                    [name |-> ident.value.out.name,
                     email |-> ident.value.out.email,
                     time |-> [seconds |-> time.value.out,
                               offset |-> zone.offset,
                               sign |-> zone.sign]])

\* What comes before the time zone in the inputs tried: two that parse ("n <e> 12 " and
\* " <> 5 "), one without '>', one whose timestamp is no number, one without the space
\* after the email.
SignatureHeads ==
    { <<"n", " ", "<", "e", ">", " ", "1", "2", " ">>,
      <<" ", "<", ">", " ", "5", " ">>,
      <<"n", " ", "<", " ", "1", "2", " ">>,
      <<"n", " ", "<", "e", ">", " ", "a", "b", " ">>,
      <<"n", " ", "<", "e", ">", "1", "2", " ">> }

TzChars == {"-", "+", "0", "7"}

TzTexts == UNION {[1 .. n -> TzChars] : n \in 0 .. MaxTzLen}

InitDecode ==
    /\ input \in {h \o t : h \in SignatureHeads, t \in TzTexts}
    /\ decoded = None
    /\ NoResolution
    /\ NoNewRepository

Decode ==
    /\ decoded = None
    /\ decoded' = Some(decode(input))
    /\ UNCHANGED <<input, delegate_vars, init_vars>>

NextDecode == Decode

SpecDecode == InitDecode /\ [][NextDecode]_vars

(***************************************************************************)
(* Repository initialization: git-repository/src/init.rs.  Names are       *)
(* sequences of one-character strings.                                     *)
(***************************************************************************)
\* Length of the configured branch names tried.
MaxBranchLen == 4

DEFAULT_BRANCH_NAME == <<"m", "a", "i", "n">>

BranchChars == {"m", "a", "i", "n", "/", "."}

BranchNames == UNION {[1 .. n -> BranchChars] : n \in 0 .. MaxBranchLen}

\* What of the environment can fail: creating the directory, opening it, the edit.
FailingSteps == {"nothing", "create", "open", "edit"}

\* format!("refs/heads/{branch_name}")
heads(branch_name) == <<"r", "e", "f", "s", "/", "h", "e", "a", "d", "s", "/">> \o branch_name

\* git_validate::refname on names over BranchChars: no empty component, none that
\* starts with a dot, no "..", and no dot at the end.
refname(name) ==
    LET n == Len(name)
    IN  /\ n > 0
        /\ name[1] \notin {"/", "."}
        /\ name[n] \notin {"/", "."}
        /\ \A k \in 1 .. n - 1 :
              /\ ~(name[k] = "/" /\ name[k + 1] \in {"/", "."})
              /\ ~(name[k] = "." /\ name[k + 1] = ".")

\* TryInto<FullName>
try_into(name) == IF refname(name) THEN Ok(name) ELSE Err("refname")

\* HEAD as crate::create::into leaves it: on the default branch.
created_HEAD == Symbolic(heads(DEFAULT_BRANCH_NAME))

\* The edit of HEAD, with the reflog setting of the handle that makes it.
HeadEdit(sym_ref) ==
    [write_reflog |-> "Disable",
     edit |-> [name |-> <<"H", "E", "A", "D">>,
               deref |-> FALSE,
               change |-> [type |-> "Update", log |-> "default", expected |-> "Any",
                           new |-> Symbolic(sym_ref)]]]

After(head, made, result) == [HEAD |-> head, edits |-> made, result |-> result]

\* HEAD rewritten whatever the configured name is.
needs_edit_always(branch_name) == TRUE

\* if branch_name.as_ref() != DEFAULT_BRANCH_NAME
needs_edit(branch_name) == branch_name # DEFAULT_BRANCH_NAME

\* pub fn init_opts
init_opts(cfg, head) ==
    LET branch_name == IF cfg.defaultBranch = None THEN DEFAULT_BRANCH_NAME
                       ELSE Unwrap(cfg.defaultBranch)
        sym_ref == try_into(heads(branch_name))
    IN  IF cfg.fails = "create" THEN After(head, <<>>, Err([type |-> "Init"]))
        ELSE IF cfg.fails = "open" THEN After(Some(created_HEAD), <<>>, Err([type |-> "Open"]))
        ELSE IF ~needs_edit(branch_name) THEN After(Some(created_HEAD), <<>>, Ok("repo"))
        ELSE IF sym_ref.tag = "Err"
        THEN After(Some(created_HEAD), <<>>,
                   Err([type |-> "InvalidBranchName", name |-> branch_name]))
        ELSE IF cfg.fails = "edit"
        THEN After(Some(created_HEAD), <<HeadEdit(sym_ref.value)>>,
                   Err([type |-> "EditHeadForDefaultBranch"]))
        ELSE After(Some(Symbolic(sym_ref.value)), <<HeadEdit(sym_ref.value)>>, Ok("repo"))

InitInitOpts ==
    /\ config \in [defaultBranch : {None} \cup {Some(b) : b \in BranchNames},
                   fails : FailingSteps]
    /\ HEAD = None
    /\ edits = <<>>
    /\ init_result = None
    /\ NoResolution
    /\ NoSignature

InitOpts ==
    /\ init_result = None
    /\ LET after == init_opts(config, HEAD)
       IN  /\ HEAD' = after.HEAD
           /\ edits' = edits \o after.edits
           /\ init_result' = Some(after.result)
    /\ UNCHANGED <<config, delegate_vars, signature_vars>>

NextInitOpts == InitOpts

SpecInitOpts == InitInitOpts /\ [][NextInitOpts]_vars

(***************************************************************************)
(* Properties.                                                             *)
(***************************************************************************)
LastCall == calls[Len(calls)]
Result == Unwrap(outcome)
DoneCall == Call("done", <<>>)

\* The ids of the stored objects a prefix matches.
Matching(p) == {o.id : o \in {x \in Objects : PrefixMatches(p, x.id)}}

\* The resolution was disambiguate_prefix(p) followed by done().
PrefixThenDone(p) ==
    pc # "parsing" /\ calls = <<DisambiguatePrefixCall(p), DoneCall>>

\* C1: under the default RefsHint a full-length prefix matching exactly one stored object,
\* followed by done() and the final reduction, resolves side 0 to that object, with no
\* reference-store lookup and an empty reference slot, whether or not a reference of
\* that name exists.
C1_FullLengthHexPrefersObject ==
    \A p \in Prefixes :
        ( /\ PrefixThenDone(p)
          /\ opts.refs_hint = DefaultRefsHint
          /\ p.hex_len = HexLen
          /\ Cardinality(Matching(p)) = 1 )
        => /\ pc = "returned"
           /\ Result.tag = "Ok"
           /\ Result.value.from = Matching(p)
           /\ Result.value.from_ref = None
           /\ refs[0] = None
           /\ ref_lookups = 0

\* C1 witness: such a resolution in a repository that has a reference named like the id.
C1_Witness ==
    \E p \in Prefixes :
        /\ PrefixThenDone(p)
        /\ opts.refs_hint = DefaultRefsHint
        /\ p.hex_len = HexLen
        /\ Cardinality(Matching(p)) = 1
        /\ refs_find(repo, PrefixToString(p)).tag = "Ok"
        /\ pc = "returned"
        /\ Result.tag = "Ok"
        /\ Result.value.from = Matching(p)

\* A short prefix matching one object while a directly-targeted reference has its name.
ShortUniqueWithRef(p) ==
    /\ p.hex_len < HexLen
    /\ Cardinality(Matching(p)) = 1
    /\ refs_find(repo, PrefixToString(p)).tag = "Ok"
    /\ try_id(refs_find(repo, PrefixToString(p)).value.target) # None

\* C2: for a short prefix matching exactly one object with a directly-targeted reference
\* of the same name: PreferRef and the default resolve to the reference's target and
\* record the reference, PreferObject resolves to the matched object and records no
\* reference, Fail fails with an ambiguous-ref-and-object error.
C2_RefVersusObject ==
    \A p \in Prefixes :
        LET r == refs_find(repo, PrefixToString(p)).value
        IN  /\ ( /\ PrefixThenDone(p)
                 /\ ShortUniqueWithRef(p)
                 /\ opts.refs_hint \in {"PreferRef", DefaultRefsHint} )
               => /\ pc = "returned"
                  /\ Result.tag = "Ok"
                  /\ Result.value.from = try_id(r.target)
                  /\ Result.value.from_ref = Some(r)
                  /\ refs[0] = Some(r)
            /\ ( /\ PrefixThenDone(p)
                 /\ ShortUniqueWithRef(p)
                 /\ opts.refs_hint = "PreferObject" )
               => /\ pc = "returned"
                  /\ Result.tag = "Ok"
                  /\ Result.value.from = Matching(p)
                  /\ Result.value.from_ref = None
                  /\ refs[0] = None
            /\ ( /\ calls # <<>>
                 /\ calls[1] = DisambiguatePrefixCall(p)
                 /\ ShortUniqueWithRef(p)
                 /\ opts.refs_hint = "Fail" )
               => /\ calls = <<DisambiguatePrefixCall(p)>>
                  /\ pc = "returned"
                  /\ Result.tag = "Err"
                  /\ Display(Result.error) = AmbiguousRefAndObject(p, r)

\* C2 witness: PreferRef (or the default) returned the target of the reference, which is
\* not the object the prefix matches.
C2_Witness ==
    \E p \in Prefixes :
        /\ PrefixThenDone(p)
        /\ ShortUniqueWithRef(p)
        /\ opts.refs_hint \in {"PreferRef", DefaultRefsHint}
        /\ pc = "returned"
        /\ Result.tag = "Ok"
        /\ Result.value.from # Matching(p)
        /\ Result.value.from_ref # None

\* C3: under each of the four RefsHint policies a short prefix matching exactly one
\* object, with no reference named like it, resolves to that object with an empty
\* reference slot.
C3_ShortUniqueWithoutRef ==
    \A p \in Prefixes :
        ( /\ PrefixThenDone(p)
          /\ p.hex_len < HexLen
          /\ Cardinality(Matching(p)) = 1
          /\ refs_find(repo, PrefixToString(p)).tag = "Err" )
        => /\ pc = "returned"
           /\ Result.tag = "Ok"
           /\ Result.value.from = Matching(p)
           /\ Result.value.from_ref = None
           /\ refs[0] = None

\* C3 witness: such a resolution under a policy that did consult the reference store.
C3_Witness ==
    \E p \in Prefixes :
        /\ PrefixThenDone(p)
        /\ p.hex_len < HexLen
        /\ Cardinality(Matching(p)) = 1
        /\ refs_find(repo, PrefixToString(p)).tag = "Err"
        /\ opts.refs_hint = "Fail"
        /\ ref_lookups = 1
        /\ pc = "returned"
        /\ Result.tag = "Ok"
        /\ Result.value.from = Matching(p)

\* C4: a prefix matching N >= 2 objects that are kept as objects, with no ObjectKindHint
\* and no narrowing callback, fails with an ambiguous-prefix error carrying the prefix
\* and one info entry per candidate.
C4_AmbiguousPrefixNamesAllCandidates ==
    \A p \in Prefixes :
        ( /\ PrefixThenDone(p)
          /\ Cardinality(Matching(p)) >= 2
          /\ refs[0] = None
          /\ opts.object_kind_hint = None )
        => /\ pc = "returned"
           /\ Result.tag = "Err"
           /\ Display(Result.error).type = "AmbiguousPrefix"
           /\ Display(Result.error).prefix = p
           /\ Len(Display(Result.error).info) = Cardinality(Matching(p))

\* The candidates of a set that pass the configured hint.
Passing(S) == {o \in S : hint_check(Unwrap(opts.object_kind_hint), o).tag = "Ok"}

\* done() is taken on a side whose last callback was a disambiguate_prefix that kept
\* N >= 2 objects, with an ObjectKindHint configured.
DoneOnAmbiguousPrefix ==
    /\ pc = "parsing"
    /\ calls' = Append(calls, DoneCall)
    /\ last_call_was_disambiguate_prefix[idx]
    /\ objs[idx] # None
    /\ Cardinality(Unwrap(objs[idx])) >= 2
    /\ opts.object_kind_hint # None

\* C5: with an ObjectKindHint and the flag still set at done(), if exactly one of the
\* N >= 2 candidates passes the hint check the fallback pass removes the N-1 others,
\* records their errors, and the resolution succeeds with that candidate.
C5_FallbackHintPicksTheOnePassing ==
    [][ ( /\ DoneOnAmbiguousPrefix
          /\ Cardinality(Passing(Unwrap(objs[idx]))) = 1 )
        => /\ pc' = "returned"
           /\ objs'[idx] = Some(Passing(Unwrap(objs[idx])))
           /\ Len(err') = Len(err) + Cardinality(Unwrap(objs[idx])) - 1
           /\ Unwrap(outcome').tag = "Ok"
           /\ Unwrap(outcome').value.from = Passing(Unwrap(objs[idx])) ]_vars

\* C5 witness: a prefix matching several objects resolved to one, with errors recorded.
C5_Witness ==
    /\ pc = "returned"
    /\ Len(calls) >= 2
    /\ LastCall = DoneCall
    /\ calls[Len(calls) - 1].name = "disambiguate_prefix"
    /\ Cardinality(Matching(Unwrap(prefix[0]))) > 2
    /\ opts.object_kind_hint # None
    /\ Result.tag = "Ok"
    /\ Result.value.from # None
    /\ Result.value.from \subseteq Matching(Unwrap(prefix[0]))
    /\ Len(err) = Cardinality(Matching(Unwrap(prefix[0]))) - 1

\* C6: with an ObjectKindHint, if none of the N >= 2 candidates passes the hint check the
\* resolution fails and the returned chain holds the N per-candidate errors besides the
\* ambiguous-prefix error.
C6_FallbackHintAllFail ==
    [][ ( /\ DoneOnAmbiguousPrefix
          /\ Passing(Unwrap(objs[idx])) = {} )
        => /\ pc' = "returned"
           /\ Unwrap(outcome').tag = "Err"
           /\ LET chain == Chain(Unwrap(outcome').error)
                  failed == {hint_check(Unwrap(opts.object_kind_hint), o).error : o \in Unwrap(objs[idx])}
              IN  /\ failed \subseteq Range(chain)
                  /\ Cardinality(failed) = Cardinality(Unwrap(objs[idx]))
                  /\ Len(chain) = Len(err) + Cardinality(Unwrap(objs[idx])) + 1
                  /\ \E i \in DOMAIN chain :
                         /\ chain[i].type = "AmbiguousPrefix"
                         /\ chain[i].prefix = Unwrap(prefix[idx]) ]_vars

\* C6 witness: the resolution of an ambiguous prefix failed with every candidate's hint
\* error in the chain.
C6_Witness ==
    /\ pc = "returned"
    /\ calls # <<>>
    /\ LastCall = DoneCall
    /\ opts.object_kind_hint # None
    /\ objs[0] # None
    /\ Cardinality(Unwrap(objs[0])) >= 2
    /\ Passing(Unwrap(objs[0])) = {}
    /\ Result.tag = "Err"
    /\ Len(Chain(Result.error)) = Cardinality(Unwrap(objs[0])) + 1

\* C7 as stated: from_errors puts the last (newest) entry of a list of two or more
\* outermost and the next links lead back to the first.
C7_NewestOutermost ==
    (pc = "returned" /\ Len(err) >= 2)
    => /\ Result.error.type = "Multi"
       /\ Result.error.current = err[Len(err)]
       /\ Chain(Result.error) = [i \in 1 .. Len(err) |-> err[Len(err) + 1 - i]]

\* C7 amended: from_errors puts the first (oldest) entry of a list of two or more
\* outermost and the next links recover the following entries in list order.
C7_FirstOutermost ==
    (pc = "returned" /\ Len(err) >= 2)
    => /\ Result.error.type = "Multi"
       /\ Result.error.current = err[1]
       /\ Chain(Result.error) = err

\* C7 witness: a list of three errors with distinct ends was aggregated.
C7_Witness ==
    /\ pc = "returned"
    /\ Len(err) = 3
    /\ err[1] # err[3]
    /\ Result.error.current = err[1]
    /\ Chain(Result.error)[3] = err[3]

\* A resolution that returned an error other than the parser's own.
Failed == pc = "returned" /\ Result.tag = "Err" /\ Result.error # ParseError

\* The list handed to the aggregator: the log after a callback gave up, the log behind
\* the ambiguous-prefix error after an ambiguous reduction.
Aggregated ==
    LET i == CHOOSE s \in Sides : objs[s] # None /\ Cardinality(Unwrap(objs[s])) >= 2
    IN  IF ret = "None" THEN err
        ELSE <<ambiguous(Unwrap(objs[i]), Unwrap(prefix[i]))>> \o err

AmbiguousSides == {i \in Sides : objs[i] # None /\ Cardinality(Unwrap(objs[i])) >= 2}

\* C9: the final reduction gives a side without candidate set no object and a side with
\* one candidate that id; a side with two or more candidates fails the call with an
\* aggregated error holding an ambiguous-prefix error for that side's prefix and every
\* error of the log.
C9_FinalReduction ==
    (calls # <<>> /\ LastCall = DoneCall /\ ret = "Some")
    => /\ pc = "returned"
       /\ IF AmbiguousSides = {}
          THEN /\ Result.tag = "Ok"
               /\ Result.value.from = (IF objs[0] = None THEN None ELSE Unwrap(objs[0]))
               /\ Result.value.to = (IF objs[1] = None THEN None ELSE Unwrap(objs[1]))
          ELSE /\ Result.tag = "Err"
               /\ LET i == CHOOSE s \in AmbiguousSides : \A t \in AmbiguousSides : s <= t
                      chain == Chain(Result.error)
                  IN  /\ \E k \in DOMAIN chain :
                             /\ chain[k].type = "AmbiguousPrefix"
                             /\ chain[k].prefix = Unwrap(prefix[i])
                      /\ Range(err) \subseteq Range(chain)
                      /\ Len(chain) = Len(err) + 1

\* C9 witness: an ambiguous side failed the call while the log held errors.
C9_Witness ==
    /\ pc = "returned"
    /\ calls # <<>>
    /\ LastCall = DoneCall
    /\ AmbiguousSides # {}
    /\ Len(err) >= 2
    /\ Result.tag = "Err"
    /\ Len(Chain(Result.error)) = Len(err) + 1

\* C10: under RefsHint::Fail, disambiguate_prefix with a non-empty match set on a side
\* with empty slots: if a reference is named like the prefix it appends
\* ambiguous-ref-and-object then ambiguous-prefix, stores the reference, leaves the
\* candidate set absent and returns None; otherwise it keeps the matches and succeeds.
C10_FailOnAmbiguity ==
    [][ \A p \in Prefixes :
          ( /\ pc = "parsing"
            /\ calls' = Append(calls, DisambiguatePrefixCall(p))
            /\ opts.refs_hint = "Fail"
            /\ Matching(p) # {}
            /\ objs[idx] = None
            /\ refs[idx] = None )
          => LET found == refs_find(repo, PrefixToString(p))
             IN  IF found.tag = "Ok"
                 THEN /\ ret' = "None"
                      /\ Len(err') = Len(err) + 2
                      /\ SubSeq(err', 1, Len(err)) = err
                      /\ err'[Len(err) + 1] = AmbiguousRefAndObject(p, found.value)
                      /\ err'[Len(err) + 2].type = "AmbiguousPrefix"
                      /\ err'[Len(err) + 2].prefix = p
                      /\ refs'[idx] = Some(found.value)
                      /\ objs'[idx] = None
                 ELSE /\ ret' = "Some"
                      /\ err' = err
                      /\ objs'[idx] = Some(Matching(p))
                      /\ refs'[idx] = None ]_vars

\* C10 witness: disambiguate_prefix gave up under RefsHint::Fail with the reference
\* stored and the two errors logged.
C10_Witness ==
    /\ calls # <<>>
    /\ LastCall.name = "disambiguate_prefix"
    /\ opts.refs_hint = "Fail"
    /\ ret = "None"
    /\ refs[0] # None
    /\ objs[0] = None
    /\ Len(err) = 2
    /\ err[1].type = "AmbiguousRefAndObject"
    /\ err[2].type = "AmbiguousPrefix"

\* C11: the kind callback succeeds, commits the RangeKind of the specifier and switches
\* the active side index to 1, so that later callbacks populate side 1 and the Outcome
\* carries the RangeKind.
C11_KindSwitchesSide ==
    (\E i \in DOMAIN calls : calls[i].name = "kind")
    => /\ pc # "panicked"
       /\ kind # None
       /\ idx = 1

\* The commits the candidates of a set peel to.
CommitsOf(S) == {peel(o, "commit").value : o \in {x \in S : peel(x, "commit").tag = "Ok"}}

\* A prefix matching exactly two objects, an annotated tag and a commit, both of which
\* peel to a commit.
TagAndCommit(p) ==
    /\ Cardinality(Matching(p)) = 2
    /\ {find_object(o).value.kind : o \in Matching(p)} = {"tag", "commit"}
    /\ \A o \in Matching(p) : peel(o, "commit").tag = "Ok"

\* C12: with ObjectKindHint Committish and a prefix kept as two candidates, an annotated
\* tag and a commit: if both peel to the same commit the resolution succeeds with that
\* single commit, if they peel to different commits it fails with an ambiguous-prefix
\* error.
C12_CommittishCollapses ==
    \A p \in Prefixes :
        ( /\ PrefixThenDone(p)
          /\ TagAndCommit(p)
          /\ refs[0] = None
          /\ opts.object_kind_hint = Some("Committish") )
        => /\ pc = "returned"
           /\ IF Cardinality(CommitsOf(Matching(p))) = 1
              THEN /\ Result.tag = "Ok"
                   /\ Result.value.from = CommitsOf(Matching(p))
              ELSE /\ Result.tag = "Err"
                   /\ Display(Result.error) = ambiguous(Matching(p), p)

\* The second half of C12 on its own: a tag and a commit peeling to different commits
\* leave the side ambiguous.
C12_DifferentCommitsAmbiguous ==
    \A p \in Prefixes :
        ( /\ PrefixThenDone(p)
          /\ TagAndCommit(p)
          /\ refs[0] = None
          /\ opts.object_kind_hint = Some("Committish")
          /\ Cardinality(CommitsOf(Matching(p))) = 2 )
        => /\ pc = "returned"
           /\ Result.tag = "Err"
           /\ Display(Result.error) = ambiguous(Matching(p), p)

\* A tag and the commit it points to were both kept and the call failed as ambiguous.
C12_SameCommitAmbiguous ==
    \E p \in Prefixes :
        /\ PrefixThenDone(p)
        /\ TagAndCommit(p)
        /\ refs[0] = None
        /\ opts.object_kind_hint = Some("Committish")
        /\ Cardinality(CommitsOf(Matching(p))) = 1
        /\ objs[0] = Some(Matching(p))
        /\ pc = "returned"
        /\ Result.tag = "Err"

\* C13: when done() runs on a side on which no disambiguate_prefix ran, or on which
\* another callback ran after the last one, the side's flag is false and the fallback
\* pass removes no candidate and appends no error, whatever ObjectKindHint is
\* configured; the only change to a candidate set is reference folding installing the
\* target of the side's reference.
C13_FallbackOnlyWithFlag ==
    [][ ( /\ pc = "parsing"
          /\ calls' = Append(calls, DoneCall)
          /\ (calls = <<>> \/ LastCall.name # "disambiguate_prefix") )
        => /\ ~last_call_was_disambiguate_prefix[idx]
           /\ err' = err
           /\ \A i \in Sides :
                  \/ objs'[i] = objs[i]
                  \/ /\ objs[i] = None
                     /\ refs[i] # None
                     /\ objs'[i] = Some(try_id(Unwrap(refs[i]).target)) ]_vars

\* C13 witness: a peel_until between disambiguate_prefix and done() kept candidates that
\* fail the configured hint, and done() recorded nothing about them.
C13_Witness ==
    /\ pc = "returned"
    /\ Len(calls) = 3
    /\ calls[1].name = "disambiguate_prefix"
    /\ calls[2].name = "peel_until"
    /\ calls[3] = DoneCall
    /\ opts.object_kind_hint # None
    /\ objs[0] # None
    /\ Cardinality(Unwrap(objs[0])) >= 2
    /\ Passing(Unwrap(objs[0])) # Unwrap(objs[0])
    /\ err = <<>>

\* What peel_until(to) checks of one candidate, and the id a passing candidate is kept as.
PeelCheck(to, o) == IF to.tag = "ValidObject" THEN find_object(o) ELSE peel(o, to.kind)
Survivor(to, o) == IF to.tag = "ValidObject" THEN o ELSE peel(o, to.kind).value

\* C14: peel_until (must-exist or peel-to-kind) on a side with candidates appends the
\* error of every failing candidate to the log; if every candidate fails the candidate
\* set is unchanged and the callback returns None; if at least one passes, exactly the
\* failing candidates are dropped (the others kept as what they peel to) and the
\* callback returns Some.
C14_PeelUntilPartialFailure ==
    [][ \A to \in PeelTos :
          ( /\ pc = "parsing"
            /\ calls' = Append(calls, Call("peel_until", to))
            /\ to.tag \in {"ValidObject", "ObjectKind"}
            /\ objs[idx] # None )
          => LET c == Unwrap(objs[idx])
                 failing == {o \in c : PeelCheck(to, o).tag = "Err"}
             IN  /\ Len(err') = Len(err) + Cardinality(failing)
                 /\ SubSeq(err', 1, Len(err)) = err
                 /\ Range(SubSeq(err', Len(err) + 1, Len(err'))) =
                        {PeelCheck(to, o).error : o \in failing}
                 /\ IF failing = c
                    THEN ret' = "None" /\ objs' = objs
                    ELSE /\ ret' = "Some"
                         /\ objs'[idx] = Some({Survivor(to, o) : o \in c \ failing}) ]_vars

\* C14 witness: peel_until dropped some of the candidates a prefix matched, recorded
\* their errors and succeeded.
C14_Witness ==
    /\ Len(calls) = 2
    /\ calls[1].name = "disambiguate_prefix"
    /\ LastCall.name = "peel_until"
    /\ ret = "Some"
    /\ err # <<>>
    /\ objs[0] # None
    /\ Unwrap(objs[0]) # {}
    /\ Cardinality(Unwrap(objs[0])) + Len(err) = Cardinality(Matching(Unwrap(prefix[0])))

\* C15: a side's candidate set is absent or non-empty in every state, and the final
\* reduction never meets a present set of zero candidates.
C15_CandidateSetNeverEmpty ==
    /\ \A i \in Sides : objs[i] # Some({})
    /\ panic # "BUG: let's avoid still being around if no candidate matched the requirements"

\* C15 witness: every candidate of a side failed peel_until and the set was left as it
\* was.
C15_Witness ==
    /\ calls # <<>>
    /\ LastCall.name = "peel_until"
    /\ ret = "None"
    /\ objs[0] # None
    /\ Cardinality(Unwrap(objs[0])) >= 2
    /\ Len(err) = Cardinality(Unwrap(objs[0]))

C17_AggregatorInputNonEmpty ==
    /\ ret = "None" => err # <<>>
    /\ panic # "assertion failed: !errors.is_empty()"

\* The object database cannot hand out the object of this id.
Missing(o) == find_object(o).tag = "Err"

\* C18: peeling or kind-checking a candidate whose object cannot be found yields the
\* object-lookup error: the log never holds an ObjectKind or PeelToKind error about such
\* an id, peel and require_object_kind answer FindObject for every such candidate, and
\* once peel_until(ObjectKind) or the fallback pass went over the candidates of a prefix
\* the log holds the FindObject error of each of them.
C18_MissingObjectIsLookupError ==
    /\ \A i \in DOMAIN err :
           err[i].type \in {"ObjectKind", "PeelToKind"} => ~Missing(err[i].oid)
    /\ \A s \in Sides, k \in Kinds :
           objs[s] # None =>
               \A o \in Unwrap(objs[s]) :
                   Missing(o) =>
                       /\ peel(o, k) = Err(FindObject("NotFound", o))
                       /\ require_object_kind(o, k) = Err(FindObject("NotFound", o))
    /\ \A p \in Prefixes :
           ( /\ Len(calls) = 2
             /\ calls[1] = DisambiguatePrefixCall(p)
             /\ refs[0] = None
             /\ \/ calls[2].name = "peel_until" /\ calls[2].arg.tag = "ObjectKind"
                \/ calls[2] = DoneCall /\ opts.object_kind_hint # None )
           => \A o \in Matching(p) : Missing(o) => FindObject("NotFound", o) \in Range(err)

\* C18 witness: peel_until(ObjectKind) went over candidates one of which cannot be
\* found, and recorded the lookup error for it.
C18_Witness ==
    /\ Len(calls) = 2
    /\ calls[1].name = "disambiguate_prefix"
    /\ calls[2].name = "peel_until"
    /\ calls[2].arg.tag = "ObjectKind"
    /\ refs[0] = None
    /\ \E o \in Matching(Unwrap(prefix[0])) :
           Missing(o) /\ FindObject("NotFound", o) \in Range(err)

\* C19: find_ref clears the active side's flag; unless it steps aside (slot set and log
\* non-empty), a failing reference lookup appends exactly that one error, leaves the
\* reference slot and the candidate sets as they were and returns None, and a
\* successful lookup on a side with an empty slot stores the reference and returns Some
\* with the log and the candidate sets untouched.
C19_FindRef ==
    [][ \A name \in RefNames :
          ( /\ pc = "parsing"
            /\ calls' = Append(calls, Call("find_ref", name)) )
          => LET found == refs_find(repo, name)
             IN  /\ ~last_call_was_disambiguate_prefix'[idx]
                 /\ ( ~(err # <<>> /\ refs[idx] # None) /\ found.tag = "Err" )
                    => /\ ret' = "None"
                       /\ err' = Append(err, found.error)
                       /\ refs' = refs
                       /\ objs' = objs
                 /\ ( found.tag = "Ok" /\ refs[idx] = None )
                    => /\ ret' = "Some"
                       /\ refs'[idx] = Some(found.value)
                       /\ err' = err
                       /\ objs' = objs ]_vars

\* C19 witness: find_ref of an unknown name right after a disambiguate_prefix that kept
\* its matches: flag cleared, one error, the candidates still there.
C19_Witness ==
    /\ Len(calls) = 2
    /\ calls[1].name = "disambiguate_prefix"
    /\ LastCall.name = "find_ref"
    /\ ret = "None"
    /\ err = <<FindReference(LastCall.arg)>>
    /\ ~last_call_was_disambiguate_prefix[0]
    /\ refs[0] = None
    /\ objs[0] = Some(Matching(Unwrap(prefix[0])))

\* C20: disambiguate_prefix with a prefix no object matches appends exactly one
\* PrefixNotFound error, and with a failing database lookup exactly one wrapped lookup
\* error; either way it returns None, leaves the candidate sets and reference slots as
\* they were, makes no reference-store lookup, and has set the side's flag and recorded
\* the prefix.
C20_PrefixNotFound ==
    [][ \A p \in Prefixes, io_error \in BOOLEAN :
          ( /\ pc = "parsing"
            /\ calls' = Append(calls, Call("disambiguate_prefix", [prefix |-> p, io_error |-> io_error]))
            /\ (io_error \/ Matching(p) = {}) )
          => /\ ret' = "None"
             /\ err' = Append(err, IF io_error THEN FindObject("Find", <<>>) ELSE PrefixNotFound(p))
             /\ objs' = objs
             /\ refs' = refs
             /\ ref_lookups' = ref_lookups
             /\ last_call_was_disambiguate_prefix'[idx]
             /\ prefix'[idx] = Some(p) ]_vars

\* C20 witness: after a find_ref stored a reference, disambiguate_prefix found no object
\* for its prefix.
C20_Witness ==
    /\ Len(calls) = 2
    /\ calls[1].name = "find_ref"
    /\ LastCall.name = "disambiguate_prefix"
    /\ ~LastCall.arg.io_error
    /\ ret = "None"
    /\ err = <<PrefixNotFound(LastCall.arg.prefix)>>
    /\ refs[0] # None
    /\ objs[0] = None
    /\ last_call_was_disambiguate_prefix[0]
    /\ prefix[0] = Some(LastCall.arg.prefix)
    /\ ref_lookups = 1

\* The callbacks that clear the flag before anything else.
ClearingCallbacks ==
    {"find_ref", "peel_until", "reflog", "nth_checked_out_branch", "sibling_branch",
     "traverse", "find", "index_lookup"}

\* C21: the active side's flag is set after disambiguate_prefix, whether or not its
\* lookup found anything, and clear after find_ref, peel_until and each unsupported
\* callback, also when that callback failed or panicked; it is clear before the first
\* callback and once done() has returned, and the other side's flag is never set.
C21_FlagFollowsLastCallback ==
    /\ calls = <<>> => ~last_call_was_disambiguate_prefix[idx]
    /\ calls # <<>> =>
           /\ LastCall.name = "disambiguate_prefix" => last_call_was_disambiguate_prefix[idx]
           /\ LastCall.name \in ClearingCallbacks => ~last_call_was_disambiguate_prefix[idx]
           /\ (LastCall = DoneCall /\ ret = "Some") => ~last_call_was_disambiguate_prefix[idx]
    /\ ~last_call_was_disambiguate_prefix[1 - idx]

\* C21 witness: an unsupported callback right after a disambiguate_prefix left the flag
\* clear when it panicked.
C21_Witness ==
    /\ Len(calls) = 2
    /\ calls[1].name = "disambiguate_prefix"
    /\ calls[2].name \in {"reflog", "nth_checked_out_branch", "sibling_branch",
                          "traverse", "find", "index_lookup"}
    /\ pc = "panicked"
    /\ ~last_call_was_disambiguate_prefix[0]

\* C22: reference folding applied to the delegate of any state installs {target} on
\* every side with a directly-targeted reference and no candidate set, leaves every
\* other candidate set, the reference slots, the log, the prefix records and the flags as
\* they are, and applied again to its own result changes nothing.
C22_ReferenceFoldingFrame ==
    LET folded == follow_refs_to_objects_if_needed(Self)
        d == folded.value
    IN  folded.tag = "Ok"
        => /\ \A i \in Sides :
                  IF objs[i] = None /\ refs[i] # None
                  THEN d.objs[i] = Some(try_id(Unwrap(refs[i]).target))
                  ELSE d.objs[i] = objs[i]
           /\ d.refs = refs
           /\ d.err = err
           /\ d.prefix = prefix
           /\ d.last_call_was_disambiguate_prefix = last_call_was_disambiguate_prefix
           /\ d.idx = idx
           /\ d.kind = kind
           /\ follow_refs_to_objects_if_needed(d) = Ok(d)

\* C22 witness: peel_until folded a reference into a candidate set and peeled it to
\* something else than the reference's target; done() then ran the folding again and the
\* side kept its candidate.
C22_Witness ==
    /\ Len(calls) = 3
    /\ calls[1].name = "find_ref"
    /\ calls[2].name = "peel_until"
    /\ calls[3] = DoneCall
    /\ pc = "returned"
    /\ refs[0] # None
    /\ objs[0] # None
    /\ objs[0] # Some(try_id(Unwrap(refs[0]).target))
    /\ Result.tag = "Ok"
    /\ Result.value.from = Unwrap(objs[0])

\* A side holds a symbolic reference and no candidate set.
SymbolicUnfolded(i) ==
    refs[i] # None /\ try_id(Unwrap(refs[i]).target) = None /\ objs[i] = None

\* C23: when done() or peel_until meets a side with a symbolic reference and no
\* candidate set the resolution panics as unimplemented and returns nothing; a
\* successful Outcome whose reference is symbolic has its object from a prefix lookup.
C23_SymbolicReferenceFailsLoudly ==
    /\ ( /\ calls # <<>>
         /\ LastCall.name \in {"done", "peel_until"}
         /\ \E i \in Sides : SymbolicUnfolded(i) )
       => /\ pc = "panicked"
          /\ panic = "not yet implemented: follow ref to get direct target object"
          /\ outcome = None
    /\ ( /\ pc = "returned"
         /\ Result.tag = "Ok"
         /\ Result.value.from_ref # None
         /\ try_id(Unwrap(Result.value.from_ref).target) = None )
       => /\ prefix[0] # None
          /\ Result.value.from # None

\* C23 witness: find_ref stored the symbolic HEAD and done() panicked on it.
C23_Witness ==
    /\ calls = <<Call("find_ref", <<"HEAD">>), DoneCall>>
    /\ SymbolicUnfolded(0)
    /\ pc = "panicked"
    /\ panic = "not yet implemented: follow ref to get direct target object"

\* C24: every step leaves the error log as it was or longer, with the previous log as
\* its unchanged beginning.
C24_ErrorLogAppendOnly ==
    [][ /\ Len(err') >= Len(err)
        /\ SubSeq(err', 1, Len(err)) = err ]_vars

\* C24 witness: two peel_until callbacks in a row each added an error to the log.
C24_Witness ==
    /\ Len(calls) = 3
    /\ calls[1].name = "disambiguate_prefix"
    /\ calls[2].name = "peel_until"
    /\ calls[3].name = "peel_until"
    /\ ret = "Some"
    /\ Len(err) = 2
    /\ err[1] # err[2]

\* The kind of a stored, readable object.
KindOf(o) == (CHOOSE x \in Objects : x.id = o).kind

\* The kind an ObjectKindHint asks for.
HintKind(h) ==
    CASE h \in {"Commit", "Committish"} -> "commit"
      [] h \in {"Tree", "Treeish"} -> "tree"
      [] OTHER -> "blob"

\* Exact-match semantics for Commit, Tree and Blob, peel semantics for the -ish hints.
Satisfies(h, o) ==
    IF h \in {"Commit", "Tree", "Blob"}
    THEN ~Missing(o) /\ KindOf(o) = HintKind(h)
    ELSE peel(o, HintKind(h)).tag = "Ok"

\* C25: after disambiguate_prefix kept its matches and done() ran with a hint, the side
\* holds the matches that satisfy the hint (all of them if none does), where Commit, Tree
\* and Blob are satisfied only by an object of that very kind and Committish and Treeish
\* by every object that peels to a commit or tree; the log holds one error per failing
\* match, an ObjectKind error naming actual and expected kind under the exact hints.
C25_ExactAndPeelSemantics ==
    \A p \in Prefixes :
        ( /\ PrefixThenDone(p)
          /\ refs[0] = None
          /\ Matching(p) # {}
          /\ opts.object_kind_hint # None )
        => LET h == Unwrap(opts.object_kind_hint)
               good == {o \in Matching(p) : Satisfies(h, o)}
               bad == Matching(p) \ good
           IN  /\ objs[0] = Some(IF good = {} THEN Matching(p) ELSE good)
               /\ Len(err) = Cardinality(bad)
               /\ \A o \in bad :
                      IF Missing(o) THEN FindObject("NotFound", o) \in Range(err)
                      ELSE IF h \in {"Commit", "Tree", "Blob"}
                      THEN ObjectKind(o, KindOf(o), HintKind(h)) \in Range(err)
                      ELSE \E e \in Range(err) : e.type = "PeelToKind" /\ e.expected = HintKind(h)

\* C25 witness: under hint Commit a tag pointing to a commit failed with an ObjectKind
\* error and the commit next to it was picked.
C25_Witness ==
    \E p \in Prefixes :
        /\ PrefixThenDone(p)
        /\ opts.object_kind_hint = Some("Commit")
        /\ refs[0] = None
        /\ \E t \in Matching(p) :
               /\ KindOf(t) = "tag"
               /\ peel(t, "commit").tag = "Ok"
               /\ err = <<ObjectKind(t, "tag", "commit")>>
               /\ objs[0] = Some(Matching(p) \ {t})
        /\ pc = "returned"
        /\ Result.tag = "Ok"

\* done() is taken with no ObjectKindHint configured and reference folding succeeds.
DoneWithoutHint ==
    /\ pc = "parsing"
    /\ calls' = Append(calls, DoneCall)
    /\ opts.object_kind_hint = None
    /\ follow_refs_to_objects_if_needed(Self).tag = "Ok"

\* C26 as stated: with no ObjectKindHint the fallback pass leaves candidate sets,
\* reference slots, prefix records, error log and flags as reference folding left them.
C26_NoHintPassChangesNothing ==
    [][ DoneWithoutHint
        => /\ objs' = follow_refs_to_objects_if_needed(Self).value.objs
           /\ refs' = refs
           /\ prefix' = prefix
           /\ err' = err
           /\ last_call_was_disambiguate_prefix' = last_call_was_disambiguate_prefix ]_vars

\* C26 amended: with no ObjectKindHint the fallback pass leaves candidate sets, reference
\* slots, prefix records and error log as reference folding left them, and clears the
\* active side's flag.
C26_NoHintPassOnlyClearsFlag ==
    [][ DoneWithoutHint
        => /\ objs' = follow_refs_to_objects_if_needed(Self).value.objs
           /\ refs' = refs
           /\ prefix' = prefix
           /\ err' = err
           /\ last_call_was_disambiguate_prefix' =
                  [last_call_was_disambiguate_prefix EXCEPT ![idx] = FALSE] ]_vars

\* C26 witness: done() right after a disambiguate_prefix that kept several objects of
\* which not all are commits, with no hint: the candidates are all there, the log is
\* empty and the flag is clear.
C26_Witness ==
    \E p \in Prefixes :
        /\ PrefixThenDone(p)
        /\ opts.object_kind_hint = None
        /\ Cardinality(Matching(p)) >= 2
        /\ objs[0] = Some(Matching(p))
        /\ \E o \in Matching(p) : require_object_kind(o, "commit").tag = "Err"
        /\ err = <<>>
        /\ ~last_call_was_disambiguate_prefix[0]
        /\ pc = "returned"

\* The ids the matches of a prefix peel to, for those that peel to the kind.
PeeledTo(p, k) == {peel(c, k).value : c \in {x \in Matching(p) : peel(x, k).tag = "Ok"}}

\* C27: after disambiguate_prefix kept its matches and peel_until(ObjectKind K)
\* succeeded, in whatever order the set was iterated, the side holds exactly the ids the
\* matches peel to; every one of them is an object of kind K, and a match of kind K stays
\* in the set also when another match peels to it.
C27_PeelUntilReplacesByPeeled ==
    \A p \in Prefixes, k \in Kinds :
        ( /\ calls = <<DisambiguatePrefixCall(p), Call("peel_until", [tag |-> "ObjectKind", kind |-> k])>>
          /\ refs[0] = None
          /\ ret = "Some" )
        => /\ objs[0] = Some(PeeledTo(p, k))
           /\ \A o \in PeeledTo(p, k) : ~Missing(o) /\ KindOf(o) = k
           /\ \A c \in Matching(p) : (~Missing(c) /\ KindOf(c) = k) => c \in Unwrap(objs[0])

\* C27 witness: a commit and a tag pointing to that commit were peeled to commit and the
\* commit is what the side holds.
C27_Witness ==
    \E p \in Prefixes :
        /\ calls = <<DisambiguatePrefixCall(p), Call("peel_until", [tag |-> "ObjectKind", kind |-> "commit"])>>
        /\ refs[0] = None
        /\ ret = "Some"
        /\ \E c, t \in Matching(p) :
               /\ c # t
               /\ KindOf(c) = "commit"
               /\ peel(t, "commit") = Ok(c)
               /\ c \in Unwrap(objs[0])
               /\ t \notin Unwrap(objs[0])

\* C28: a prefix kept as one candidate that fails the configured hint is resolved to that
\* candidate all the same: done() appends the one error, keeps the candidate, and the
\* call returns Ok with it.
C28_SingleFailingCandidateResolves ==
    \A p \in Prefixes :
        ( /\ PrefixThenDone(p)
          /\ refs[0] = None
          /\ Cardinality(Matching(p)) = 1
          /\ opts.object_kind_hint # None
          /\ ~Satisfies(Unwrap(opts.object_kind_hint), CHOOSE o \in Matching(p) : TRUE) )
        => /\ pc = "returned"
           /\ objs[0] = Some(Matching(p))
           /\ Len(err) = 1
           /\ err[1].type \in {"ObjectKind", "PeelToKind", "FindObject"}
           /\ Result.tag = "Ok"
           /\ Result.value.from = Matching(p)

\* C28 witness: a commit was returned although the hint asked for a blob.
C28_Witness ==
    \E p \in Prefixes :
        /\ PrefixThenDone(p)
        /\ refs[0] = None
        /\ Cardinality(Matching(p)) = 1
        /\ opts.object_kind_hint = Some("Blob")
        /\ \A o \in Matching(p) : KindOf(o) = "commit"
        /\ pc = "returned"
        /\ Result.tag = "Ok"
        /\ Result.value.from = Matching(p)
        /\ Len(err) = 1
        /\ err[1].type = "ObjectKind"

\* C29: a side holding two or more candidates has its prefix recorded, and the final
\* reduction never finds the prefix of an ambiguous side missing.
C29_AmbiguousSideHasPrefix ==
    /\ \A i \in Sides :
           (objs[i] # None /\ Cardinality(Unwrap(objs[i])) >= 2) => prefix[i] # None
    /\ panic # "set when obtaining candidates"

\* C29 witness: an ambiguous side failed the call with an error naming its prefix.
C29_Witness ==
    /\ pc = "returned"
    /\ objs[0] # None
    /\ Cardinality(Unwrap(objs[0])) >= 2
    /\ prefix[0] # None
    /\ Result.tag = "Err"
    /\ Display(Result.error).type = "AmbiguousPrefix"
    /\ Display(Result.error).prefix = Unwrap(prefix[0])

\* C30: a candidate set that is present stays present and never grows in a step, and a
\* step that creates a set of more than one element is a disambiguate_prefix.
C30_CandidatesNeverGrow ==
    [][ \A i \in Sides :
          /\ objs[i] # None
             => /\ objs'[i] # None
                /\ Cardinality(Unwrap(objs'[i])) <= Cardinality(Unwrap(objs[i]))
          /\ (objs[i] = None /\ objs'[i] # None /\ Cardinality(Unwrap(objs'[i])) > 1)
             => calls'[Len(calls')].name = "disambiguate_prefix" ]_vars

\* C30 witness: two peel_until callbacks narrowed the four matches of a prefix to one.
C30_Witness ==
    /\ Len(calls) = 3
    /\ calls[1].name = "disambiguate_prefix"
    /\ calls[2].name = "peel_until"
    /\ calls[3].name = "peel_until"
    /\ ret = "Some"
    /\ Cardinality(Matching(Unwrap(prefix[0]))) = 4
    /\ objs[0] # None
    /\ Cardinality(Unwrap(objs[0])) = 1

\* C31: once disambiguate_prefix has returned as the first callback (the side was
\* untouched), the side's reference slot and candidate set are not both populated;
\* when it answered Some exactly one is: either the whole match set is the candidate
\* set, or the reference named like the prefix is in the slot and there is no set.
C31_PrefixLeavesOneInterpretation ==
    (Len(calls) = 1 /\ calls[1].name = "disambiguate_prefix")
        => /\ ~(refs[0] # None /\ objs[0] # None)
           /\ objs[0] # None => objs[0] = Some(Matching(calls[1].arg.prefix))
           /\ refs[0] # None
                => LET found == refs_find(repo, PrefixToString(calls[1].arg.prefix))
                   IN  found.tag = "Ok" /\ refs[0] = Some(found.value)
           /\ ret = "Some" => (refs[0] # None \/ objs[0] # None)

\* C31 witness: a short prefix matching objects and a reference of that name; under
\* PreferRef the first callback left the reference and no candidate set.
C31_Witness ==
    /\ Len(calls) = 1
    /\ calls[1].name = "disambiguate_prefix"
    /\ opts.refs_hint = "PreferRef"
    /\ ret = "Some"
    /\ Matching(calls[1].arg.prefix) # {}
    /\ refs[0] # None
    /\ objs[0] = None

\* C32: the active side is always side 0, and side 1's reference slot, candidate set,
\* prefix record and flag stay empty, as does the range kind; so every successful
\* outcome has no 'to', no 'to_ref' and no kind.
C32_SecondSideNeverUsed ==
    /\ idx = 0
    /\ refs[1] = None
    /\ objs[1] = None
    /\ prefix[1] = None
    /\ last_call_was_disambiguate_prefix[1] = FALSE
    /\ kind = None
    /\ (pc = "returned" /\ Result.tag = "Ok")
         => /\ Result.value.to = None
            /\ Result.value.to_ref = None
            /\ Result.value.kind = None

\* C32 witness: a resolution that succeeded with a 'from' object and reference.
C32_Witness ==
    /\ pc = "returned"
    /\ Result.tag = "Ok"
    /\ Result.value.from # None
    /\ Result.value.from_ref # None
    /\ Result.value.to = None

\* C33: find_ref called while the side's reference slot is set and the error log is not
\* empty answers None without asking the reference store and without touching the log,
\* the reference slots, the candidate sets or the prefixes; only the flag is cleared.
C33_FindRefGivesUpEarly ==
    [][ (/\ calls' # calls
         /\ calls'[Len(calls')].name = "find_ref"
         /\ refs[idx] # None
         /\ err # <<>>)
        => /\ ret' = "None"
           /\ ref_lookups' = ref_lookups
           /\ err' = err
           /\ refs' = refs
           /\ objs' = objs
           /\ prefix' = prefix
           /\ idx' = idx
           /\ last_call_was_disambiguate_prefix'
                = [last_call_was_disambiguate_prefix EXCEPT ![idx] = FALSE] ]_vars

\* C33 witness: find_ref gave up after a peel_until that had logged a failure, with the
\* reference of an earlier find_ref in the slot and no lookup made for the last call.
C33_Witness ==
    /\ Len(calls) = 4
    /\ calls[1].name = "find_ref"
    /\ calls[3].name = "peel_until"
    /\ calls[4].name = "find_ref"
    /\ refs[0] # None
    /\ err # <<>>
    /\ ret = "None"
    /\ ref_lookups = 1

\* The text after a head that parses, for an input that starts with such a head.
ParsingHeads ==
    { <<"n", " ", "<", "e", ">", " ", "1", "2", " ">>, <<" ", "<", ">", " ", "5", " ">> }
HasHead(h) == Len(input) >= Len(h) /\ SubSeq(input, 1, Len(h)) = h
Text(t) == \E h \in ParsingHeads : input = h \o t

\* tz is n equal sign bytes, two digits of hours and k digits of minutes, the minutes
\* being all the digits there are up to two.
TimeZoneShape(tz, n, k) ==
    /\ Len(tz) >= n + 2 + k
    /\ tz[1] \in {"-", "+"}
    /\ \A j \in 1 .. n : tz[j] = tz[1]
    /\ \A j \in n + 1 .. n + 2 + k : is_digit(tz[j])
    /\ k = 2 \/ Len(tz) = n + 3 \/ ~is_digit(tz[n + 4])

Decoded == Unwrap(decoded)

\* C34: after a head that parses, decode succeeds exactly on a run of one or more equal
\* sign bytes followed by two digits HH and one or two digits MM; the offset is then
\* HH*3600 + MM*60 seconds, negated exactly when the sign byte is '-', and the sign is
\* Minus for '-' (also at offset zero) and Plus for '+'.  "--700" gives -252000 and
\* Minus, "-0000" gives 0 and Minus.
C34_TimeZoneOffset ==
    \A h \in ParsingHeads :
        (decoded # None /\ HasHead(h))
            => LET tz == SubSeq(input, Len(h) + 1, Len(input))
                   shapes == {nk \in (1 .. MaxTzLen + 1) \X {1, 2} :
                                  TimeZoneShape(tz, nk[1], nk[2])}
               IN  /\ Decoded.tag = "Ok" <=> shapes # {}
                   /\ \A nk \in shapes :
                        LET n == nk[1]
                            HH == 10 * DigitValue(tz[n + 1]) + DigitValue(tz[n + 2])
                            MM == IF nk[2] = 1 THEN DigitValue(tz[n + 3])
                                  ELSE 10 * DigitValue(tz[n + 3]) + DigitValue(tz[n + 4])
                            seconds == HH * 3600 + MM * 60
                            zone == Decoded.value.out.time
                        IN  /\ zone.offset = IF tz[1] = "-" THEN 0 - seconds ELSE seconds
                            /\ zone.sign = IF tz[1] = "-" THEN "Minus" ELSE "Plus"
                            /\ Decoded.value.rest = SubSeq(tz, n + 3 + nk[2], Len(tz))
                   /\ tz = <<"-", "-", "7", "0", "0">>
                        => /\ Decoded.tag = "Ok"
                           /\ Decoded.value.out.time.offset = -252000
                           /\ Decoded.value.out.time.sign = "Minus"
                   /\ tz = <<"-", "0", "0", "0", "0">>
                        => /\ Decoded.tag = "Ok"
                           /\ Decoded.value.out.time.offset = 0
                           /\ Decoded.value.out.time.sign = "Minus"

\* C34 witness: "-0000" was decoded to offset 0 with sign Minus.
C34_Witness ==
    /\ decoded # None
    /\ Text(<<"-", "0", "0", "0", "0">>)
    /\ Decoded.tag = "Ok"
    /\ Decoded.value.out.time.offset = 0
    /\ Decoded.value.out.time.sign = "Minus"

InitResult == Unwrap(init_result)

\* C35: once init_opts has created and opened the repository, it hands an edit to
\* edit_reference exactly when init.defaultBranch is configured, differs from "main"
\* and makes refs/heads/<value> a valid name: one edit of HEAD, reflog disabled, any
\* previous value, to the symbolic target refs/heads/<value>, which is HEAD's target
\* when init_opts returns Ok.  A value that makes no valid name gives InvalidBranchName
\* carrying the value; then, and when the value is absent or "main", no edit is made
\* and HEAD stays as created.
C35_DefaultBranchEdit ==
    (init_result # None /\ config.fails \notin {"create", "open"})
        => LET value == config.defaultBranch
               differs == value # None /\ Unwrap(value) # <<"m", "a", "i", "n">>
               full == heads(Unwrap(value))
           IN  /\ edits # <<>> <=> (differs /\ refname(full))
               /\ edits # <<>>
                    => /\ Len(edits) = 1
                       /\ edits[1].write_reflog = "Disable"
                       /\ edits[1].edit.name = <<"H", "E", "A", "D">>
                       /\ edits[1].edit.deref = FALSE
                       /\ edits[1].edit.change.expected = "Any"
                       /\ edits[1].edit.change.new = Symbolic(full)
                       /\ InitResult.tag = "Ok" <=> config.fails = "nothing"
                       /\ InitResult.tag = "Ok" <=> HEAD = Some(Symbolic(full))
               /\ (differs /\ ~refname(full))
                    => InitResult = Err([type |-> "InvalidBranchName", name |-> Unwrap(value)])
               /\ edits = <<>> => HEAD = Some(created_HEAD)
               /\ ~differs => InitResult = Ok("repo")

\* C35 witness: the branch "mai" was configured and HEAD now points to refs/heads/mai.
C35_Witness ==
    /\ init_result # None
    /\ config.defaultBranch = Some(<<"m", "a", "i">>)
    /\ InitResult.tag = "Ok"
    /\ Len(edits) = 1
    /\ HEAD = Some(Symbolic(heads(<<"m", "a", "i">>)))

====
